---- MODULE Spec2Model ----
(***************************************************************************)
(* Model of style_bert_vits2/nlp/japanese/g2p.py: the grapheme-to-phoneme  *)
(* pipeline (g2p), the word/reading segmenter (text_to_sep_kata), the      *)
(* phoneme distributor (__distribute_phone) and the phoneme-count          *)
(* reconciler (adjust_word2ph).                                            *)
(*                                                                         *)
(* Strings are sequences of one-glyph strings.  Python indices are 0-based *)
(* and are kept 0-based wherever the code stores them (index pairs,        *)
(* begin_index, end_index); TLA+ sequences are 1-based.                    *)
(***************************************************************************)
EXTENDS Integers, Sequences, FiniteSets, TLC

VARIABLES
    pc,                 \* position of the call that is being modelled
    word2ph,            \* adjust_word2ph / g2p: phoneme count per character
    generated_phone,    \* adjust_word2ph argument
    given_phone,        \* adjust_word2ph argument
    differences,        \* adjust_word2ph: result of extract_differences
    replayed,           \* adjust_word2ph: adjusted_word2ph at the assert of line 1217
    swept_low,          \* adjust_word2ph: adjusted_word2ph after the loop of line 1223
    adjusted_word2ph,   \* adjust_word2ph: adjusted_word2ph after the loop of line 1249
    unpaid,             \* shortfall the loop of line 1223 gave up on (line 1236)
    unabsorbed,         \* surplus the loop of line 1249 gave up on (line 1255)
    n_phone,            \* __distribute_phone argument
    n_word,             \* __distribute_phone argument
    parsed,             \* text_to_sep_kata: result of pyopenjtalk.run_frontend
    raise_yomi_error,   \* text_to_sep_kata / g2p argument
    sep_text,           \* text_to_sep_kata / g2p: the words
    sep_kata,           \* text_to_sep_kata / g2p: the reading of each word
    labels,             \* g2p: result of pyopenjtalk.make_label for norm_text
    use_jp_extra,       \* g2p argument
    use_unidic3,        \* g2p argument
    use_yomikata,       \* g2p argument
    hougen_mode,        \* g2p argument
    phone_tone_list_wo_punct,   \* g2p: result of __g2phone_tone_wo_punct
    sep_phonemes,       \* g2p: the phonemes of each word
    phone_tone_list,    \* g2p: the (phoneme, tone) pairs
    tagger_out,         \* update_yomi: what the tagger gave for each word of sep_text
    yomikata_out,       \* update_yomi: the {word/reading} items of reader.furigana
    sep_tokenized,      \* g2p: the number of tokens of each word
    tone_loop,          \* __g2phone_tone_wo_punct: prosodies and the locals of the loop of line 1295
    yomi_loop,          \* update_yomi: kana_list, accent_list and the locals of lines 297-313
    onnx,               \* get_text_onnx: hps.data.add_blank and the locals of lines 57-65
    ret                 \* value returned by the modelled call

adjVars == <<word2ph, generated_phone, given_phone, differences, replayed,
             swept_low, adjusted_word2ph, unpaid, unabsorbed>>

distVars == <<n_phone, n_word>>

sepVars == <<parsed, raise_yomi_error, sep_text, sep_kata>>

g2pArgs == <<labels, use_jp_extra, use_unidic3, use_yomikata, hougen_mode>>

g2pLocals == <<phone_tone_list_wo_punct, sep_phonemes, phone_tone_list, tagger_out,
               yomikata_out, sep_tokenized>>

vars == <<pc, adjVars, distVars, sepVars, g2pArgs, g2pLocals, tone_loop, yomi_loop, onnx, ret>>

(***************************************************************************)
(* Python helpers                                                          *)
(***************************************************************************)
Max(a, b) == IF a >= b THEN a ELSE b

Min(a, b) == IF a <= b THEN a ELSE b

SeqsUpTo(S, n) == UNION {[1..k -> S] : k \in 0..n}

RECURSIVE Sum(_)
Sum(s) == IF s = <<>> THEN 0 ELSE Head(s) + Sum(Tail(s))

Repeat(x, n) == [k \in 1..n |-> x]

\* s[b:e] of Python for 0-based b >= 0 and any integer e (a negative e counts
\* from the end, and a slice whose end is not after its start is empty).
PySlice(s, b, e) ==
    LET e1 == IF e < 0 THEN Max(Len(s) + e, 0) ELSE Min(e, Len(s))
        b1 == Min(b, Len(s))
    IN  IF e1 <= b1 THEN <<>> ELSE SubSeq(s, b1 + 1, e1)

(***************************************************************************)
(* adjust_word2ph                                                          *)
(***************************************************************************)
\* Maximum number of phonemes per character kept by the second sweep.
MaxPhonesPerChar == 6

\* LcsRow with L[i - 1][j] in place of max(L[i - 1][j], L[i][j - 1]) at
\* line 1123.
RECURSIVE LcsRowAboveOnly(_, _, _, _, _)
LcsRowAboveOnly(X, Y, i, above, acc) ==
    LET j == Len(acc)
    IN  IF j > Len(Y) THEN acc
        ELSE IF j = 0 THEN LcsRowAboveOnly(X, Y, i, above, <<0>>)
        ELSE IF X[i] = Y[j]
             THEN LcsRowAboveOnly(X, Y, i, above, Append(acc, above[j] + 1))
             ELSE LcsRowAboveOnly(X, Y, i, above, Append(acc, above[j + 1]))

\* One row of L (columns 0..n), given the row above it.
RECURSIVE LcsRow(_, _, _, _, _)
LcsRow(X, Y, i, above, acc) ==
    LET j == Len(acc)
    IN  IF j > Len(Y) THEN acc
        ELSE IF j = 0 THEN LcsRow(X, Y, i, above, <<0>>)
        ELSE IF X[i] = Y[j]
             THEN LcsRow(X, Y, i, above, Append(acc, above[j] + 1))
             ELSE LcsRow(X, Y, i, above, Append(acc, Max(above[j + 1], acc[j])))

\* The table L of longest_common_subsequence: rows[i + 1][j + 1] is L[i][j].
RECURSIVE LcsTable(_, _, _)
LcsTable(X, Y, rows) ==
    IF Len(rows) > Len(X) THEN rows
    ELSE IF rows = <<>> THEN LcsTable(X, Y, <<Repeat(0, Len(Y) + 1)>>)
    ELSE LcsTable(X, Y, Append(rows, LcsRow(X, Y, Len(rows), rows[Len(rows)], <<>>)))

\* The backward trace of longest_common_subsequence from (i, j); the pairs
\* come out in increasing order, as after index_pairs.reverse().
RECURSIVE LcsTrace(_, _, _, _, _)
LcsTraceGeq(X, Y, L, i, j) == L[i][j + 1] >= L[i + 1][j]

LcsTrace(X, Y, L, i, j) ==
    IF ~(i > 0 /\ j > 0) THEN <<>>
    ELSE IF X[i] = Y[j] THEN Append(LcsTrace(X, Y, L, i - 1, j - 1), <<i - 1, j - 1>>)
    ELSE IF LcsTraceGeq(X, Y, L, i, j) THEN LcsTrace(X, Y, L, i - 1, j)
    ELSE LcsTrace(X, Y, L, i, j - 1)

longest_common_subsequence(X, Y) ==
    LcsTrace(X, Y, LcsTable(X, Y, <<>>), Len(X), Len(Y))

DiffDetail(b, e, v) == [begin_index |-> b, end_index |-> e, value |-> v]

\* The loop over common_indices of extract_differences (lines 1144-1157).
\* diff_X and diff_Y are non-empty dicts, so "if diff_X or diff_Y" is always true.
RECURSIVE DiffLoop(_, _, _, _, _, _)
DiffLoop(gen, giv, common, prev_x, prev_y, acc) ==
    IF common = <<>> THEN [differences |-> acc, prev_x |-> prev_x, prev_y |-> prev_y]
    ELSE LET x == Head(common)[1]
             y == Head(common)[2]
             diff_X == DiffDetail(prev_x + 1, x, PySlice(gen, prev_x + 1, x))
             diff_Y == DiffDetail(prev_y + 1, y, PySlice(giv, prev_y + 1, y))
         IN  DiffLoop(gen, giv, Tail(common), x, y,
                      Append(acc, [generated |-> diff_X, given |-> diff_Y]))

\* The last non-common part (lines 1159-1173): both values are sliced up to
\* len - 1, i.e. without the last phoneme.
DiffTail(gen, giv, prev_x, prev_y) ==
    [generated |-> DiffDetail(prev_x + 1, Len(gen) - 1,
                              PySlice(gen, prev_x + 1, Len(gen) - 1)),
     given |-> DiffDetail(prev_y + 1, Len(giv) - 1,
                          PySlice(giv, prev_y + 1, Len(giv) - 1))]

DiffNotEmpty(d) == ~(Len(d.generated.value) = 0 /\ Len(d.given.value) = 0)

extract_differences(gen, giv) ==
    LET common_indices == longest_common_subsequence(gen, giv)
        loop == DiffLoop(gen, giv, common_indices, -1, -1, <<>>)
        all  == IF loop.prev_x < Len(gen) - 1 \/ loop.prev_y < Len(giv) - 1
                THEN Append(loop.differences, DiffTail(gen, giv, loop.prev_x, loop.prev_y))
                ELSE loop.differences
    IN  SelectSeq(all, DiffNotEmpty)

\* The first difference whose generated part begins at index idx, as the
\* inner for/break of lines 1200-1203 finds it; <<>> when there is none.
RECURSIVE FindDiff(_, _)
FindDiff(diffs, idx) ==
    IF diffs = <<>> THEN <<>>
    ELSE IF Head(diffs).generated.begin_index = idx THEN <<Head(diffs)>>
    ELSE FindDiff(Tail(diffs), idx)

\* Lines 1197-1214 for one element of word2ph: n iterations left, the
\* element's running count, and current_generated_index.
RECURSIVE ReplayElement(_, _, _, _)
ReplayElement(diffs, n, count, cur) ==
    IF n <= 0 THEN [count |-> count, cur |-> cur]
    ELSE LET current_diff == FindDiff(diffs, cur)
             diff_in_phonemes ==
                 IF current_diff = <<>> THEN 0
                 ELSE Len(current_diff[1].given.value) - Len(current_diff[1].generated.value)
         IN  ReplayElement(diffs, n - 1, count + diff_in_phonemes + 1, cur + 1)

\* The loop of lines 1193-1214 over word2ph.
RECURSIVE ReplayLoop(_, _, _, _)
ReplayLoop(diffs, w2p, cur, acc) ==
    IF w2p = <<>> THEN acc
    ELSE LET r == ReplayElement(diffs, Head(w2p), 0, cur)
         IN  ReplayLoop(diffs, Tail(w2p), r.cur, Append(acc, r.count))

\* RepayLoop with "diff -= adjusted_word2ph[...]" in place of
\* "diff -= adjusted_word2ph[...] - 1" at line 1241.
RECURSIVE RepayLoopOffByOne(_, _, _, _)
RepayLoopOffByOne(a, k, i, diff) ==
    IF i > Len(a) - 1 \/ k + i > Len(a) THEN [arr |-> a, lost |-> diff]
    ELSE IF a[k + i] - diff >= 1
         THEN [arr |-> [a EXCEPT ![k + i] = a[k + i] - diff], lost |-> 0]
    ELSE LET diff1 == diff - a[k + i]
             a1 == [a EXCEPT ![k + i] = 1]
         IN  IF diff1 <= 0 THEN [arr |-> a1, lost |-> 0]
             ELSE RepayLoopOffByOne(a1, k, i + 1, diff1)

\* The inner loop of lines 1234-1244: repay diff from the elements after k
\* (1-based). lost is what is left of diff when the loop gives up.
RECURSIVE RepayLoop(_, _, _, _)
RepayLoop(a, k, i, diff) ==
    IF i > Len(a) - 1 \/ k + i > Len(a) THEN [arr |-> a, lost |-> diff]
    ELSE IF a[k + i] - diff >= 1
         THEN [arr |-> [a EXCEPT ![k + i] = a[k + i] - diff], lost |-> 0]
    ELSE LET diff1 == diff - (a[k + i] - 1)
             a1 == [a EXCEPT ![k + i] = 1]
         IN  IF diff1 = 0 THEN [arr |-> a1, lost |-> 0]
             ELSE RepayLoop(a1, k, i + 1, diff1)

\* SweepLow with 2 in place of 1 as the least count at lines 1225-1230.
RECURSIVE SweepLowMinTwo(_, _, _)
SweepLowMinTwo(a, k, lost) ==
    IF k > Len(a) THEN [arr |-> a, lost |-> lost]
    ELSE IF a[k] < 2
         THEN LET r == RepayLoop([a EXCEPT ![k] = 2], k, 1, 2 - a[k])
              IN  SweepLowMinTwo(r.arr, k + 1, lost + r.lost)
    ELSE SweepLowMinTwo(a, k + 1, lost)

\* The loop of lines 1223-1244: every element below 1 is raised to 1.
RECURSIVE SweepLow(_, _, _)
SweepLow(a, k, lost) ==
    IF k > Len(a) THEN [arr |-> a, lost |-> lost]
    ELSE IF a[k] < 1
         THEN LET r == RepayLoop([a EXCEPT ![k] = 1], k, 1, 1 - a[k])
              IN  SweepLow(r.arr, k + 1, lost + r.lost)
    ELSE SweepLow(a, k + 1, lost)

\* AbsorbLoop with the slot's headroom not taken off diff at line 1260.
RECURSIVE AbsorbLoopKeepsDiff(_, _, _, _)
AbsorbLoopKeepsDiff(a, k, i, diff) ==
    IF i > Len(a) - 1 \/ k + i > Len(a) THEN [arr |-> a, lost |-> diff]
    ELSE IF a[k + i] + diff <= MaxPhonesPerChar
         THEN [arr |-> [a EXCEPT ![k + i] = a[k + i] + diff], lost |-> 0]
    ELSE AbsorbLoopKeepsDiff([a EXCEPT ![k + i] = MaxPhonesPerChar], k, i + 1, diff)

\* The inner loop of lines 1253-1263: push diff into the elements after k.
RECURSIVE AbsorbLoop(_, _, _, _)
AbsorbLoop(a, k, i, diff) ==
    IF i > Len(a) - 1 \/ k + i > Len(a) THEN [arr |-> a, lost |-> diff]
    ELSE IF a[k + i] + diff <= MaxPhonesPerChar
         THEN [arr |-> [a EXCEPT ![k + i] = a[k + i] + diff], lost |-> 0]
    ELSE LET diff1 == diff - (MaxPhonesPerChar - a[k + i])
             a1 == [a EXCEPT ![k + i] = MaxPhonesPerChar]
         IN  IF diff1 = 0 THEN [arr |-> a1, lost |-> 0]
             ELSE AbsorbLoop(a1, k, i + 1, diff1)

\* SweepHigh with 7 in place of 6 at lines 1250-1252.
RECURSIVE SweepHighLimitSeven(_, _, _)
SweepHighLimitSeven(a, k, lost) ==
    IF k > Len(a) THEN [arr |-> a, lost |-> lost]
    ELSE IF a[k] > MaxPhonesPerChar + 1
         THEN LET r == AbsorbLoop([a EXCEPT ![k] = MaxPhonesPerChar + 1], k, 1,
                                  a[k] - (MaxPhonesPerChar + 1))
              IN  SweepHighLimitSeven(r.arr, k + 1, lost + r.lost)
    ELSE SweepHighLimitSeven(a, k + 1, lost)

\* The loop of lines 1249-1263: every element above 6 is cut to 6.
RECURSIVE SweepHigh(_, _, _)
SweepHigh(a, k, lost) ==
    IF k > Len(a) THEN [arr |-> a, lost |-> lost]
    ELSE IF a[k] > MaxPhonesPerChar
         THEN LET r == AbsorbLoop([a EXCEPT ![k] = MaxPhonesPerChar], k, 1,
                                  a[k] - MaxPhonesPerChar)
              IN  SweepHigh(r.arr, k + 1, lost + r.lost)
    ELSE SweepHigh(a, k + 1, lost)

\* x[1:-1] of lines 1093-1095.
StripEnds(s) == PySlice(s, 1, -1)

(***************************************************************************)
(* Inputs of adjust_word2ph                                                *)
(***************************************************************************)
MaxGen == 3
MaxSlots == 3
MaxGiven == 2
MaxRun == 16

AdjPhones == {"a", "b"}

\* The phoneme of which an override may insert a long run.
RunPhone == "x"

\* Counts per character for n phonemes: g2p builds each word's counts with
\* __distribute_phone, which leaves 0 where a word has fewer phonemes than
\* characters.
Word2PhFor(n) ==
    {w \in SeqsUpTo(0..n, MaxSlots) : Sum(w) = n}

InsertRun(s, p, k) ==
    PySlice(s, 0, Min(p, Len(s))) \o Repeat(RunPhone, k) \o PySlice(s, Min(p, Len(s)), Len(s))

GivenPhones ==
    {InsertRun(s, p, k) : s \in SeqsUpTo(AdjPhones, MaxGiven), p \in 0..MaxGiven, k \in 0..MaxRun}

Bounded(s) == <<"_">> \o s \o <<"_">>

\* hougen_mode is None, a list of rule names, or a string (lines 293 and 329
\* compare it with "kinki" and "tokyo").
HougenNone == [kind |-> "None", rules |-> <<>>, value |-> ""]

HougenList(rules) == [kind |-> "list", rules |-> rules, value |-> ""]

HougenStr(value) == [kind |-> "str", rules |-> <<>>, value |-> value]

\* __g2phone_tone_wo_punct before its loop.
NoToneLoop ==
    [prosodies |-> <<>>, i |-> 0, result |-> <<>>, current_phrase |-> <<>>, current_tone |-> 0]

\* get_text_onnx before line 57.
NoOnnx == [add_blank |-> FALSE, phone |-> <<>>, tone |-> <<>>, language |-> <<>>, word2ph |-> <<>>]

\* update_yomi before line 297.
NoYomiLoop ==
    [kana_list |-> <<>>, accent_list |-> <<>>, accent_hl_list |-> <<>>, new_phone_w_punct |-> <<>>]

IdleG2P ==
    /\ labels = <<>>
    /\ tone_loop = NoToneLoop
    /\ yomi_loop = NoYomiLoop
    /\ onnx = NoOnnx
    /\ use_jp_extra = TRUE
    /\ use_unidic3 = FALSE
    /\ use_yomikata = FALSE
    /\ hougen_mode = HougenNone
    /\ phone_tone_list_wo_punct = <<>>
    /\ sep_phonemes = <<>>
    /\ phone_tone_list = <<>>
    /\ tagger_out = <<>>
    /\ yomikata_out = <<>>
    /\ sep_tokenized = <<>>

IdleAdjust ==
    /\ word2ph = <<>>
    /\ generated_phone = <<>>
    /\ given_phone = <<>>
    /\ differences = <<>>
    /\ replayed = <<>>
    /\ swept_low = <<>>
    /\ adjusted_word2ph = <<>>
    /\ unpaid = 0
    /\ unabsorbed = 0

IdleDistribute ==
    /\ n_phone = 0
    /\ n_word = 0

IdleSepKata ==
    /\ parsed = <<>>
    /\ raise_yomi_error = FALSE
    /\ sep_text = <<>>
    /\ sep_kata = <<>>

InitAdjust ==
    /\ pc = "adjust_word2ph"
    /\ IdleDistribute
    /\ IdleSepKata
    /\ IdleG2P
    /\ \E gen \in SeqsUpTo(AdjPhones, MaxGen) :
         /\ generated_phone = Bounded(gen)
         /\ \E w \in Word2PhFor(Len(gen)) : word2ph = <<1>> \o w \o <<1>>
    /\ \E giv \in GivenPhones : given_phone = Bounded(giv)
    /\ differences = <<>>
    /\ replayed = <<>>
    /\ swept_low = <<>>
    /\ adjusted_word2ph = <<>>
    /\ unpaid = 0
    /\ unabsorbed = 0
    /\ ret = <<>>

\* adjust_word2ph from its first line to the failing assert of line 1217 or
\* to its return.
AdjustWord2ph ==
    /\ pc = "adjust_word2ph"
    /\ \E diffs \in {extract_differences(StripEnds(generated_phone), StripEnds(given_phone))} :
       \E a0 \in {ReplayLoop(diffs, StripEnds(word2ph), 0, <<>>)} :
         /\ differences' = diffs
         /\ replayed' = a0
         /\ IF Len(StripEnds(given_phone)) # Sum(a0)
            THEN /\ pc' = "AssertionError"
                 /\ UNCHANGED <<swept_low, adjusted_word2ph, unpaid, unabsorbed, ret>>
            ELSE \E low \in {SweepLow(a0, 1, 0)} :
                 \E high \in {SweepHigh(low.arr, 1, 0)} :
                   /\ swept_low' = low.arr
                   /\ unpaid' = low.lost
                   /\ adjusted_word2ph' = high.arr
                   /\ unabsorbed' = high.lost
                   /\ ret' = <<1>> \o high.arr \o <<1>>
                   /\ pc' = "returned"
    /\ UNCHANGED <<word2ph, generated_phone, given_phone, distVars, sepVars, g2pArgs, onnx, tone_loop, yomi_loop, g2pLocals>>

NextAdjust == AdjustWord2ph

SpecAdjust == InitAdjust /\ [][NextAdjust]_vars

(***************************************************************************)
(* Properties of adjust_word2ph                                            *)
(***************************************************************************)
AdjustEnded == pc \in {"returned", "AssertionError"}

InRange(w) == \A k \in 1..Len(w) : w[k] >= 1 /\ w[k] <= MaxPhonesPerChar

\* C4: whenever adjust_word2ph returns, every entry of the returned word2ph
\* is in [1,6], the two re-attached boundary entries are 1, and the list has
\* as many entries as the word2ph it was given.
C4_ReturnedEntriesInRange ==
    pc = "returned" =>
        /\ InRange(ret)
        /\ Len(ret) = Len(StripEnds(word2ph)) + 2
        /\ ret[1] = 1
        /\ ret[Len(ret)] = 1

\* A call returned although the replay left one count below 1 and another
\* above 6, so both sweeps had work to do.
C4_Witness ==
    /\ pc = "returned"
    /\ \E k \in 1..Len(replayed) : replayed[k] < 1
    /\ \E k \in 1..Len(replayed) : replayed[k] > MaxPhonesPerChar

\* C5: for sum(word2ph) == len(generated_phone), the counts after the replay
\* sum to the number of override phonemes, i.e. the assert of line 1217 never
\* fails.
C5_ReplaySumsToGiven ==
    (/\ AdjustEnded
     /\ Sum(StripEnds(word2ph)) = Len(StripEnds(generated_phone)))
        => /\ pc # "AssertionError"
           /\ Sum(replayed) = Len(StripEnds(given_phone))

\* C6 as stated: with given_phone = generated_phone the call returns the
\* word2ph it was given, whatever its entries.
C6_IdentityOnEqualPhones ==
    (AdjustEnded /\ given_phone = generated_phone)
        => (pc = "returned" /\ ret = word2ph)

\* C6 as amended: with given_phone = generated_phone the call returns the
\* word2ph it was given when every entry of it is in [1,6].
C6_IdentityWhenInRange ==
    (AdjustEnded /\ given_phone = generated_phone /\ InRange(word2ph))
        => (pc = "returned" /\ ret = word2ph)

\* An unchanged override of two different phonemes that belong to one
\* character.
C6_Witness ==
    /\ pc = "returned"
    /\ given_phone = generated_phone
    /\ InRange(word2ph)
    /\ word2ph = <<1, 2, 1>>
    /\ Len(generated_phone) = 4
    /\ generated_phone[2] # generated_phone[3]
    /\ ret = word2ph

\* C7 as stated: when a sweep runs out of following slots, the returned
\* counts do not sum to the number of override phonemes.
C7_FailureNeverSilent ==
    (pc = "returned" /\ (unpaid > 0 \/ unabsorbed > 0))
        => Sum(adjusted_word2ph) # Len(StripEnds(given_phone))

\* C7 as amended: the returned counts sum to the number of override phonemes
\* plus the shortfall the first sweep gave up on minus the surplus the second
\* sweep gave up on, so the caller's sum check sees a sweep that ran out of
\* slots exactly when the two amounts differ.
C7_SumAfterSweeps ==
    pc = "returned" =>
        /\ Sum(swept_low) = Len(StripEnds(given_phone)) + unpaid
        /\ Sum(adjusted_word2ph) = Len(StripEnds(given_phone)) + unpaid - unabsorbed
        /\ Sum(ret) = Sum(adjusted_word2ph) + 2

\* Both sweeps ran out of slots, by different amounts.
C7_Witness ==
    /\ pc = "returned"
    /\ unpaid > 0
    /\ unabsorbed > 0
    /\ unpaid # unabsorbed
    /\ Sum(adjusted_word2ph) # Len(StripEnds(given_phone))

(***************************************************************************)
(* __distribute_phone (lines 1579-1598)                                    *)
(***************************************************************************)
\* min(lst) of Python for a non-empty list.
PyMin(s) == CHOOSE m \in {s[k] : k \in 1..Len(s)} : \A k \in 1..Len(s) : m <= s[k]

\* The position of the last occurrence of v.
LastIndexOf(s, v) == CHOOSE k \in 1..Len(s) : s[k] = v /\ \A j \in (k + 1)..Len(s) : s[j] # v

\* lst.index(v) of Python for a value the list holds, as a 1-based position.
IndexOf(s, v) == CHOOSE k \in 1..Len(s) : s[k] = v /\ \A j \in 1..(k - 1) : s[j] # v

\* The loop of lines 1593-1596 with todo iterations left.  min() of an empty
\* list raises ValueError.
RECURSIVE DistributeLoop(_, _)
DistributeLoop(phones_per_word, todo) ==
    IF todo = 0 THEN [raised |-> "", value |-> phones_per_word]
    ELSE IF Len(phones_per_word) = 0 THEN [raised |-> "ValueError", value |-> <<>>]
    ELSE LET min_tasks == PyMin(phones_per_word)
             min_index == IndexOf(phones_per_word, min_tasks)
         IN  DistributeLoop([phones_per_word EXCEPT ![min_index] = @ + 1], todo - 1)

distribute_phone(np, nw) == DistributeLoop(Repeat(0, nw), np)

MaxNPhone == 12
MaxNWord == 5

InitDistribute ==
    /\ pc = "distribute_phone"
    /\ IdleAdjust
    /\ IdleSepKata
    /\ IdleG2P
    /\ n_phone \in 0..MaxNPhone
    /\ n_word \in 0..MaxNWord
    /\ ret = <<>>

DistributePhone ==
    /\ pc = "distribute_phone"
    /\ \E r \in {distribute_phone(n_phone, n_word)} :
         /\ pc' = IF r.raised = "" THEN "returned" ELSE r.raised
         /\ ret' = r.value
    /\ UNCHANGED <<adjVars, distVars, sepVars, g2pArgs, onnx, tone_loop, yomi_loop, g2pLocals>>

NextDistribute == DistributePhone

SpecDistribute == InitDistribute /\ [][NextDistribute]_vars

\* C8: for n_phone >= 0 and n_word >= 1, __distribute_phone returns the list
\* of length n_word whose 0-based entry i is n_phone div n_word, plus 1 when
\* i < n_phone mod n_word; so the result sums to n_phone, a single word gets
\* everything, and 7 phonemes over 3 words give [3,2,2].
C8_DistributeClosedForm ==
    (pc # "distribute_phone" /\ n_word >= 1) =>
        /\ pc = "returned"
        /\ Len(ret) = n_word
        /\ \A k \in 1..n_word :
             ret[k] = (n_phone \div n_word)
                      + (IF k - 1 < n_phone % n_word THEN 1 ELSE 0)
        /\ Sum(ret) = n_phone
        /\ (n_word = 1 => ret = <<n_phone>>)
        /\ ((n_phone = 7 /\ n_word = 3) => ret = <<3, 2, 2>>)

\* 7 phonemes were distributed over 3 words.
C8_Witness ==
    /\ pc = "returned"
    /\ n_phone = 7
    /\ n_word = 3
    /\ ret = <<3, 2, 2>>

(***************************************************************************)
(* text_to_sep_kata (lines 146-206)                                        *)
(*                                                                         *)
(* Glyphs outside ASCII are written as names: FW_COMMA is the ideographic  *)
(* comma the front-end gives as the reading of what it cannot read,        *)
(* FW_QUESTION the full-width question mark, DEVOICE_MARK the devoicing    *)
(* sign, ELLIPSIS the horizontal ellipsis, K_* the katakana, KANJI and     *)
(* CYRILLIC a character with and without a reading.                        *)
(***************************************************************************)
\* style_bert_vits2.nlp.symbols.PUNCTUATIONS
PUNCTUATIONS == <<"!", "?", "ELLIPSIS", ",", ".", "'", "-">>

PySet(s) == {s[k] : k \in 1..Len(s)}

\* str.replace(old, "") of Python for a one-glyph old.
RemoveGlyph(s, old) == SelectSeq(s, LAMBDA c : c # old)

\* One filler for the whole word, whatever its length.
OneFiller(word) == <<"'">>

\* "'" * len(word) of line 196.
Filler(word) == Repeat("'", Len(word))

\* The body of the loop of lines 168-204 for one element of parsed, whose
\* word field is replace_punctuation(parts["string"]).
SepKataWord(parts, raise) ==
    LET word == parts.word
        yomi == RemoveGlyph(parts.pron, "DEVOICE_MARK")
    IN  IF yomi = <<>> THEN [raised |-> "AssertionError", word |-> word, yomi |-> yomi]
        ELSE IF yomi = <<"FW_COMMA">>
             THEN IF ~(PySet(word) \subseteq PySet(PUNCTUATIONS))
                  THEN IF raise
                       THEN [raised |-> "YomiError", word |-> word, yomi |-> yomi]
                       ELSE [raised |-> "", word |-> word, yomi |-> Filler(word)]
                  ELSE [raised |-> "", word |-> word, yomi |-> word]
        ELSE IF yomi = <<"FW_QUESTION">>
             THEN IF word # <<"?">>
                  THEN [raised |-> "AssertionError", word |-> word, yomi |-> yomi]
                  ELSE [raised |-> "", word |-> word, yomi |-> <<"?">>]
        ELSE [raised |-> "", word |-> word, yomi |-> yomi]

\* The loop of lines 168-204 from element i of parsed on.
RECURSIVE SepKataLoop(_, _, _, _, _)
SepKataLoop(p, raise, i, st, sk) ==
    IF i > Len(p) THEN [raised |-> "", sep_text |-> st, sep_kata |-> sk]
    ELSE LET r == SepKataWord(p[i], raise)
         IN  IF r.raised # "" THEN [raised |-> r.raised, sep_text |-> <<>>, sep_kata |-> <<>>]
             ELSE SepKataLoop(p, raise, i + 1, Append(st, r.word), Append(sk, r.yomi))

text_to_sep_kata(p, raise) == SepKataLoop(p, raise, 1, <<>>, <<>>)

MaxParsed == 2

\* Surfaces after replace_punctuation and the readings the front-end gives.
SepSurfaces ==
    {<<"KANJI">>, <<"KANJI", "KANJI">>, <<"CYRILLIC">>, <<"CYRILLIC", "CYRILLIC", "CYRILLIC">>,
     <<"!">>, <<"?">>, <<"-", "-">>, <<"!", "CYRILLIC">>, <<>>}

SepProns ==
    {<<"K_KA">>, <<"K_KA", "DEVOICE_MARK", "K_A">>, <<"FW_COMMA">>,
     <<"FW_COMMA", "DEVOICE_MARK">>, <<"FW_QUESTION">>, <<"DEVOICE_MARK">>, <<>>}

SepWords == [word : SepSurfaces, pron : SepProns]

InitSepKata ==
    /\ pc = "text_to_sep_kata"
    /\ IdleAdjust
    /\ IdleDistribute
    /\ IdleG2P
    /\ parsed \in SeqsUpTo(SepWords, MaxParsed)
    /\ raise_yomi_error \in BOOLEAN
    /\ sep_text = <<>>
    /\ sep_kata = <<>>
    /\ ret = <<>>

TextToSepKata ==
    /\ pc = "text_to_sep_kata"
    /\ \E r \in {text_to_sep_kata(parsed, raise_yomi_error)} :
         /\ pc' = IF r.raised = "" THEN "returned" ELSE r.raised
         /\ sep_text' = r.sep_text
         /\ sep_kata' = r.sep_kata
    /\ UNCHANGED <<adjVars, distVars, parsed, raise_yomi_error, g2pArgs, onnx, tone_loop, yomi_loop, g2pLocals, ret>>

NextSepKata == TextToSepKata

SpecSepKata == InitSepKata /\ [][NextSepKata]_vars

Unreadable(parts) == parts.pron = <<"FW_COMMA">>

AllPunctuation(word) == \A k \in 1..Len(word) : \E j \in 1..Len(PUNCTUATIONS) : word[k] = PUNCTUATIONS[j]

\* C10: for a word whose raw reading is the unreadable sentinel, a surface of
\* punctuation only is its own reading; any other surface makes the call
\* fail with YomiError and no output when raise_yomi_error is set, and gets
\* one "'" per character when it is not set, in which case YomiError is never
\* raised.  The two returned lists have one entry per front-end word.
C10_UnreadableHandling ==
    /\ pc = "returned" =>
         /\ Len(sep_text) = Len(parsed)
         /\ Len(sep_kata) = Len(parsed)
         /\ \A k \in 1..Len(parsed) :
              Unreadable(parsed[k]) =>
                  /\ sep_text[k] = parsed[k].word
                  /\ AllPunctuation(parsed[k].word) => sep_kata[k] = parsed[k].word
                  /\ ~AllPunctuation(parsed[k].word) =>
                         /\ ~raise_yomi_error
                         /\ Len(sep_kata[k]) = Len(parsed[k].word)
                         /\ \A j \in 1..Len(sep_kata[k]) : sep_kata[k][j] = "'"
    /\ pc = "YomiError" =>
         /\ raise_yomi_error
         /\ sep_text = <<>>
         /\ sep_kata = <<>>
         /\ \E k \in 1..Len(parsed) :
              /\ RemoveGlyph(parsed[k].pron, "DEVOICE_MARK") = <<"FW_COMMA">>
              /\ ~AllPunctuation(parsed[k].word)
    /\ (/\ pc \notin {"text_to_sep_kata", "AssertionError"}
        /\ raise_yomi_error
        /\ \E k \in 1..Len(parsed) : Unreadable(parsed[k]) /\ ~AllPunctuation(parsed[k].word))
           => pc = "YomiError"

\* A call without raise_yomi_error returned for an unreadable word of three
\* characters next to an unreadable punctuation run.
C10_Witness ==
    /\ pc = "returned"
    /\ ~raise_yomi_error
    /\ Len(parsed) = 2
    /\ \E k \in 1..2 : Unreadable(parsed[k]) /\ Len(parsed[k].word) = 3 /\ sep_kata[k] = <<"'", "'", "'">>
    /\ \E k \in 1..2 : Unreadable(parsed[k]) /\ parsed[k].word = <<"-", "-">> /\ sep_kata[k] = <<"-", "-">>

(***************************************************************************)
(* g2p (lines 21-143) and the functions it calls                           *)
(*                                                                         *)
(* An exception is a record whose raised field names it; a value that was  *)
(* returned has raised = "".                                               *)
(***************************************************************************)
Ok(v) == [raised |-> "", value |-> v]

Raise(e) == [raised |-> e, value |-> <<>>]

\* The element of a set of one element; {e : x \in {v}} is e with v for x.
The(S) == CHOOSE x \in S : TRUE

RECURSIVE Concat(_)
Concat(ss) == IF ss = <<>> THEN <<>> ELSE Head(ss) \o Concat(Tail(ss))

\* style_bert_vits2.nlp.japanese.mora_list.VOWELS
VOWELS == <<"a", "i", "u", "e", "o", "N">>

\* The glyphs of the model in the range of __KATAKANA_PATTERN (line 1491).
KATAKANA == {"K_A", "K_KA", "K_KI", "K_NA", "K_YA_S", "K_N", "K_Q", "K_LONG"}

\* The entries of mora_list.MORA_KATA_TO_MORA_PHONEMES for these glyphs, as
\* <<consonant, vowel>> with "" for no consonant.
MORA_KATA_TO_MORA_PHONEMES ==
    (<<"K_KI", "K_YA_S">> :> <<"ky", "a">>) @@ (<<"K_A">> :> <<"", "a">>)
    @@ (<<"K_KA">> :> <<"k", "a">>) @@ (<<"K_KI">> :> <<"k", "i">>)
    @@ (<<"K_NA">> :> <<"n", "a">>) @@ (<<"K_YA_S">> :> <<"y", "a">>)
    @@ (<<"K_N">> :> <<"", "N">>) @@ (<<"K_Q">> :> <<"", "q">>)

\* The last character of a phoneme, m.group(1) of line 1530 and [-1] of
\* line 1486.
LastChar(phoneme) ==
    CASE phoneme = "ky" -> "y"
      [] OTHER -> phoneme

\* mora2phonemes (lines 1521-1525) as the phonemes it puts after the spaces.
mora2phonemes(mora) ==
    LET cv == MORA_KATA_TO_MORA_PHONEMES[mora]
    IN  IF cv[1] = "" THEN <<cv[2]>> ELSE <<cv[1], cv[2]>>

\* KataScan with one copy for a run of long marks, whatever its length
\* (len(m.group(2)) of line 1530 taken as 1).
RECURSIVE KataScanOneCopy(_, _, _)
KataScanOneCopy(text, i, acc) ==
    IF i > Len(text) THEN acc
    ELSE IF i < Len(text) /\ SubSeq(text, i, i + 1) \in DOMAIN MORA_KATA_TO_MORA_PHONEMES
         THEN KataScanOneCopy(text, i + 2, acc \o mora2phonemes(SubSeq(text, i, i + 1)))
    ELSE IF <<text[i]>> \in DOMAIN MORA_KATA_TO_MORA_PHONEMES
         THEN KataScanOneCopy(text, i + 1, acc \o mora2phonemes(<<text[i]>>))
    ELSE IF acc = <<>> THEN KataScanOneCopy(text, i + 1, <<text[i]>>)
    ELSE IF text[i - 1] = "K_LONG" /\ acc[Len(acc)] # "K_LONG" THEN KataScanOneCopy(text, i + 1, acc)
    ELSE KataScanOneCopy(text, i + 1, Append(acc, LastChar(acc[Len(acc)])))

\* Lines 1527-1533 from glyph i on: the longest mora first (line 1492), then
\* every long mark as a copy of the character before it; a long mark with
\* nothing before it stays (line 1493: it is a word character itself).
RECURSIVE KataScan(_, _, _)
KataScan(text, i, acc) ==
    IF i > Len(text) THEN acc
    ELSE IF i < Len(text) /\ SubSeq(text, i, i + 1) \in DOMAIN MORA_KATA_TO_MORA_PHONEMES
         THEN KataScan(text, i + 2, acc \o mora2phonemes(SubSeq(text, i, i + 1)))
    ELSE IF <<text[i]>> \in DOMAIN MORA_KATA_TO_MORA_PHONEMES
         THEN KataScan(text, i + 1, acc \o mora2phonemes(<<text[i]>>))
    ELSE IF acc = <<>> THEN KataScan(text, i + 1, <<text[i]>>)
    ELSE KataScan(text, i + 1, Append(acc, LastChar(acc[Len(acc)])))

\* __kata_to_phoneme_list (lines 1496-1533).
kata_to_phoneme_list(text) ==
    IF PySet(text) \subseteq PySet(PUNCTUATIONS) THEN Ok(text)
    ELSE IF ~(PySet(text) \subseteq KATAKANA) THEN Raise("ValueError")
    ELSE Ok(KataScan(text, 1, <<>>))

\* [__kata_to_phoneme_list(i) for i in sep_kata] of lines 84 and 308.
RECURSIVE KataToPhonemeLists(_)
KataToPhonemeLists(kata) ==
    IF kata = <<>> THEN Ok(<<>>)
    ELSE LET h == kata_to_phoneme_list(Head(kata))
             t == KataToPhonemeLists(Tail(kata))
         IN  IF h.raised # "" THEN Raise(h.raised)
             ELSE IF t.raised # "" THEN Raise(t.raised)
             ELSE Ok(<<h.value>> \o t.value)

\* The loop of lines 1484-1486 from position j on.
RECURSIVE HandleLongInner(_, _)
HandleLongInner(w, j) ==
    IF j > Len(w) THEN w
    ELSE IF w[j] = "K_LONG"
         THEN HandleLongInner([w EXCEPT ![j] = LastChar(w[IF j = 1 THEN Len(w) ELSE j - 1])], j + 1)
    ELSE HandleLongInner(w, j + 1)

\* HandleLongLoop with "-" for the first long mark of every word, whatever
\* the word before it ends with (lines 1470-1479 without the test of i and
\* of prev_phoneme).
RECURSIVE HandleLongLoopAlwaysDash(_, _)
HandleLongLoopAlwaysDash(sp, i) ==
    IF i > Len(sp) THEN Ok(sp)
    ELSE IF Len(sp[i]) = 0 THEN HandleLongLoopAlwaysDash(sp, i + 1)
    ELSE LET first == IF sp[i][1] # "K_LONG" THEN sp[i][1] ELSE "-"
             w == HandleLongInner([sp[i] EXCEPT ![1] = first], 1)
         IN  HandleLongLoopAlwaysDash([sp EXCEPT ![i] = w], i + 1)

\* __handle_long (lines 1452-1488) from word i on.
RECURSIVE HandleLongLoop(_, _)
HandleLongLoop(sp, i) ==
    IF i > Len(sp) THEN Ok(sp)
    ELSE IF Len(sp[i]) = 0 THEN HandleLongLoop(sp, i + 1)
    ELSE IF sp[i][1] = "K_LONG" /\ i # 1 /\ Len(sp[i - 1]) = 0 THEN Raise("IndexError")
    ELSE LET first == IF sp[i][1] # "K_LONG" THEN sp[i][1]
                      ELSE IF i # 1 /\ (\E k \in 1..Len(VOWELS) : VOWELS[k] = sp[i - 1][Len(sp[i - 1])])
                           THEN sp[i - 1][Len(sp[i - 1])]
                      ELSE "-"
             w == HandleLongInner([sp[i] EXCEPT ![1] = first], 1)
         IN  HandleLongLoop([sp EXCEPT ![i] = w], i + 1)

handle_long(sep) == HandleLongLoop(sep, 1)

\* __align_tones (lines 1536-1576) from phone k on; tone_index is 0-based.
RECURSIVE AlignLoop(_, _, _, _, _)
AlignLoop(phones_with_punct, ptl, k, tone_index, result) ==
    IF k > Len(phones_with_punct) THEN Ok(result)
    ELSE LET phone == phones_with_punct[k]
         IN  IF tone_index >= Len(ptl)
             THEN AlignLoop(phones_with_punct, ptl, k + 1, tone_index, Append(result, <<phone, 0>>))
             ELSE IF phone = ptl[tone_index + 1][1]
             THEN AlignLoop(phones_with_punct, ptl, k + 1, tone_index + 1,
                            Append(result, <<phone, ptl[tone_index + 1][2]>>))
             ELSE IF \E j \in 1..Len(PUNCTUATIONS) : PUNCTUATIONS[j] = phone
             THEN AlignLoop(phones_with_punct, ptl, k + 1, tone_index, Append(result, <<phone, 0>>))
             ELSE Raise("ValueError")

align_tones(phones_with_punct, ptl) == AlignLoop(phones_with_punct, ptl, 1, 0, <<>>)

\* The value of a feature the label does not carry (line 1368).
Missing == 0 - 50

\* A full-context label as the fields the code reads from it.
Label(p3, a1, a2, a3, e3, f1) ==
    [p3 |-> p3, a1 |-> a1, a2 |-> a2, a3 |-> a3, e3 |-> e3, f1 |-> f1]

\* p3.lower() of line 1382 for the devoiced vowels.
Lower(p3) ==
    CASE p3 = "A" -> "a" [] p3 = "E" -> "e" [] p3 = "I" -> "i"
      [] p3 = "O" -> "o" [] p3 = "U" -> "u" [] OTHER -> p3

\* p3 in "aeiouAEIOUNcl" of line 1413, a substring test.
InBorderPhonemes(p3) ==
    p3 \in {"a", "e", "i", "o", "u", "A", "E", "I", "O", "U", "N", "c", "l", "cl",
            "ae", "ei", "io", "ou", "uA", "AE", "EI", "IO", "OU", "UN", "Nc"}

\* The marker after a phoneme with the rise tested first.
RiseFirstMarker(lab, p3, a2_next) ==
    IF lab.a2 = 1 /\ a2_next = 2 THEN <<"[">>
    ELSE IF lab.a1 = 0 /\ a2_next = lab.a2 + 1 /\ lab.a2 # lab.f1 THEN <<"]">>
    ELSE IF lab.a3 = 1 /\ a2_next = 1 /\ InBorderPhonemes(p3) THEN <<"#">>
    ELSE <<>>

\* Lines 1403-1420: the marker after a phoneme, <<>> for none.
ProsodyMarker(lab, p3, a2_next) ==
    IF lab.a3 = 1 /\ a2_next = 1 /\ InBorderPhonemes(p3) THEN <<"#">>
    ELSE IF lab.a1 = 0 /\ a2_next = lab.a2 + 1 /\ lab.a2 # lab.f1 THEN <<"]">>
    ELSE IF lab.a2 = 1 /\ a2_next = 2 THEN <<"[">>
    ELSE <<>>

\* The loop with "$" for the last silence whenever its e3 is not 1.
RECURSIVE ProsodyLoopAlwaysEnds(_, _, _)
ProsodyLoopAlwaysEnds(labs, n, phones) ==
    IF n > Len(labs) THEN Ok(phones)
    ELSE LET lab == labs[n]
             p3 == IF lab.p3 \in {"A", "E", "I", "O", "U"} THEN Lower(lab.p3) ELSE lab.p3
         IN  IF p3 = "sil"
             THEN IF ~(n = 1 \/ n = Len(labs)) THEN Raise("AssertionError")
                  ELSE IF n = 1 THEN ProsodyLoopAlwaysEnds(labs, n + 1, Append(phones, "^"))
                  ELSE IF lab.e3 = 1 THEN ProsodyLoopAlwaysEnds(labs, n + 1, Append(phones, "?"))
                  ELSE ProsodyLoopAlwaysEnds(labs, n + 1, Append(phones, "$"))
             ELSE IF p3 = "pau" THEN ProsodyLoopAlwaysEnds(labs, n + 1, Append(phones, "_"))
             ELSE IF n = Len(labs) THEN Raise("IndexError")
             ELSE ProsodyLoopAlwaysEnds(labs, n + 1,
                                        Append(phones, p3) \o ProsodyMarker(lab, p3, labs[n + 1].a2))

\* The loop of lines 1375-1420 from label n on (1-based), with
\* drop_unvoiced_vowels = True as line 1289 passes it.
RECURSIVE ProsodyLoop(_, _, _)
ProsodyLoop(labs, n, phones) ==
    IF n > Len(labs) THEN Ok(phones)
    ELSE LET lab == labs[n]
             p3 == IF lab.p3 \in {"A", "E", "I", "O", "U"} THEN Lower(lab.p3) ELSE lab.p3
         IN  IF p3 = "sil"
             THEN IF ~(n = 1 \/ n = Len(labs)) THEN Raise("AssertionError")
                  ELSE IF n = 1 THEN ProsodyLoop(labs, n + 1, Append(phones, "^"))
                  ELSE IF lab.e3 = 0 THEN ProsodyLoop(labs, n + 1, Append(phones, "$"))
                  ELSE IF lab.e3 = 1 THEN ProsodyLoop(labs, n + 1, Append(phones, "?"))
                  ELSE ProsodyLoop(labs, n + 1, phones)
             ELSE IF p3 = "pau" THEN ProsodyLoop(labs, n + 1, Append(phones, "_"))
             ELSE IF n = Len(labs) THEN Raise("IndexError")
             ELSE ProsodyLoop(labs, n + 1,
                              Append(phones, p3) \o ProsodyMarker(lab, p3, labs[n + 1].a2))

pyopenjtalk_g2p_prosody(labs) == ProsodyLoop(labs, 1, <<>>)

\* Returns the accent phrase as it is, whatever its tones are.
FixNothing(phrase) == Ok(phrase)

\* Moves the tones of the accent phrase so that the lowest is 0, whatever
\* they are.
FixShift(phrase) ==
    Ok([k \in 1..Len(phrase) |->
          <<phrase[k][1],
            phrase[k][2] - (CHOOSE low \in {phrase[j][2] : j \in 1..Len(phrase)} :
                               \A j \in 1..Len(phrase) : low <= phrase[j][2])>>])

\* __fix_phone_tone (lines 1425-1449).
fix_phone_tone(phrase) ==
    LET tone_values == {phrase[k][2] : k \in 1..Len(phrase)}
    IN  IF Cardinality(tone_values) = 1
        THEN IF tone_values = {0} THEN Ok(phrase) ELSE Raise("AssertionError")
        ELSE IF Cardinality(tone_values) = 2
        THEN IF tone_values = {0, 1} THEN Ok(phrase)
             ELSE IF tone_values = {0 - 1, 0}
             THEN Ok([k \in 1..Len(phrase) |->
                        <<phrase[k][1], IF phrase[k][2] = 0 - 1 THEN 0 ELSE 1>>])
             ELSE Raise("ValueError")
        ELSE Raise("ValueError")

\* The loop of lines 1295-1325 from symbol i on (1-based).
RECURSIVE ToneLoop(_, _, _, _, _)
ToneLoop(prosodies, i, result, current_phrase, current_tone) ==
    IF i > Len(prosodies) THEN Ok(result)
    ELSE LET letter == prosodies[i]
         IN  IF letter = "^"
             THEN IF i # 1 THEN Raise("AssertionError")
                  ELSE ToneLoop(prosodies, i + 1, result, current_phrase, current_tone)
             ELSE IF letter \in {"$", "?", "_", "#"}
             THEN LET fixed == fix_phone_tone(current_phrase)
                  IN  IF fixed.raised # "" THEN Raise(fixed.raised)
                      ELSE IF letter \in {"$", "?"} /\ i # Len(prosodies) THEN Raise("AssertionError")
                      ELSE ToneLoop(prosodies, i + 1, result \o fixed.value, <<>>, 0)
             ELSE IF letter = "[" THEN ToneLoop(prosodies, i + 1, result, current_phrase, current_tone + 1)
             ELSE IF letter = "]" THEN ToneLoop(prosodies, i + 1, result, current_phrase, current_tone - 1)
             ELSE ToneLoop(prosodies, i + 1, result,
                           Append(current_phrase, <<IF letter = "cl" THEN "q" ELSE letter, current_tone>>),
                           current_tone)

\* __g2phone_tone_wo_punct (lines 1273-1327) on the labs of the text.
g2phone_tone_wo_punct(labs) ==
    LET prosodies == pyopenjtalk_g2p_prosody(labs)
    IN  IF prosodies.raised # "" THEN Raise(prosodies.raised)
        ELSE ToneLoop(prosodies.value, 1, <<>>, <<>>, 0)

(***************************************************************************)
(* update_yomi (lines 209-335) and the functions it calls.  An accent code *)
(* is a string, here the sequence of its characters.                       *)
(***************************************************************************)
Digits == <<"0", "1", "2", "3", "4", "5", "6", "7", "8", "9">>

IsDigit(c) == \E k \in 1..Len(Digits) : Digits[k] = c

DigitVal(c) == (CHOOSE k \in 1..Len(Digits) : Digits[k] = c) - 1

\* int(s) of Python for a string without sign or blanks.
RECURSIVE PyIntLoop(_, _)
PyIntLoop(s, acc) ==
    IF s = <<>> THEN acc ELSE PyIntLoop(Tail(s), 10 * acc + DigitVal(Head(s)))

PyInt(s) ==
    IF s # <<>> /\ (\A k \in 1..Len(s) : IsDigit(s[k])) THEN Ok(PyIntLoop(s, 0))
    ELSE Raise("ValueError")

\* str(n) of Python for n >= 0.
RECURSIVE PyStr(_)
PyStr(n) == IF n < 10 THEN <<Digits[n + 1]>> ELSE Append(PyStr(n \div 10), Digits[(n % 10) + 1])

ALL_H == <<"A", "L", "L", "_", "H">>

ALL_L == <<"A", "L", "L", "_", "L">>

\* The glyphs of the model that _YOUON_PATTERN (line 473) matches.
YouonGlyphs == {"K_YA_S"}

\* One "0" or "1" for every phoneme of a piece of the reading.
ToneRun(text, tone) ==
    LET r == kata_to_phoneme_list(text)
    IN  IF r.raised # "" THEN r ELSE Ok(Repeat(tone, Len(r.value)))

\* The for loops of one branch of __convert_acc2hl, in their order.
RECURSIVE ToneRuns(_)
ToneRuns(parts) ==
    IF parts = <<>> THEN Ok(<<>>)
    ELSE LET h == ToneRun(parts[1][1], parts[1][2])
         IN  IF h.raised # "" THEN h
             ELSE LET t == ToneRuns(Tail(parts))
                  IN  IF t.raised # "" THEN t ELSE Ok(h.value \o t.value)

\* ConvertAcc with "1" from the first character up to the accent nucleus in
\* the branches of lines 556-614, in place of "1" for the nucleus alone.
ConvertAccHighUpTo(kana, accent) ==
    LET mora == Len(kana)
        youon1 == kana[2] \in YouonGlyphs
    IN  IF mora = 1 THEN ToneRun(kana, IF accent = 1 THEN "1" ELSE "0")
        ELSE IF mora = 2 /\ youon1 THEN ToneRun(kana, IF accent = 1 THEN "1" ELSE "0")
        ELSE IF accent = 0
        THEN IF youon1
             THEN ToneRuns(<< <<PySlice(kana, 0, 2), "0">>, <<PySlice(kana, 2, mora), "1">> >>)
             ELSE ToneRuns(<< <<PySlice(kana, 0, 1), "0">>, <<PySlice(kana, 1, mora), "1">> >>)
        ELSE IF accent = 1
        THEN IF youon1
             THEN ToneRuns(<< <<PySlice(kana, 0, 2), "1">>, <<PySlice(kana, 2, mora), "0">> >>)
             ELSE ToneRuns(<< <<PySlice(kana, 0, 1), "1">>, <<PySlice(kana, 1, mora), "0">> >>)
        ELSE IF accent <= mora
        THEN ToneRuns(<< <<PySlice(kana, 0, accent), "1">>, <<PySlice(kana, accent, mora), "0">> >>)
        ELSE Ok(<<>>)

\* The branches of lines 491-614 for the accent as an integer.
ConvertAcc(kana, accent) ==
    LET mora == Len(kana)
        acc == accent - 1
        youon1 == kana[2] \in YouonGlyphs
    IN  IF mora = 1 THEN ToneRun(kana, IF accent = 1 THEN "1" ELSE "0")
        ELSE IF mora = 2 /\ youon1 THEN ToneRun(kana, IF accent = 1 THEN "1" ELSE "0")
        ELSE IF accent = 0
        THEN IF mora < 2 THEN Raise("IndexError")
             ELSE IF youon1
             THEN ToneRuns(<< <<PySlice(kana, 0, 2), "0">>, <<PySlice(kana, 2, mora), "1">> >>)
             ELSE ToneRuns(<< <<PySlice(kana, 0, 1), "0">>, <<PySlice(kana, 1, mora), "1">> >>)
        ELSE IF accent = 1
        THEN IF mora < 2 THEN Raise("IndexError")
             ELSE IF youon1
             THEN ToneRuns(<< <<PySlice(kana, 0, 2), "1">>, <<PySlice(kana, 2, mora), "0">> >>)
             ELSE ToneRuns(<< <<PySlice(kana, 0, 1), "1">>, <<PySlice(kana, 1, mora), "0">> >>)
        ELSE IF accent < mora
        THEN IF youon1 /\ accent = 2
             THEN ToneRuns(<< <<PySlice(kana, 0, 2), "0">>, <<PySlice(kana, 2, 3), "1">>,
                              <<PySlice(kana, 3, mora), "0">> >>)
             ELSE IF kana[acc + 2] \in YouonGlyphs
             THEN ToneRuns(<< <<PySlice(kana, 0, acc), "0">>, <<PySlice(kana, acc, accent + 1), "1">>,
                              <<PySlice(kana, accent + 1, mora), "0">> >>)
             ELSE ToneRuns(<< <<PySlice(kana, 0, acc), "0">>, <<PySlice(kana, acc, acc + 1), "1">>,
                              <<PySlice(kana, accent, mora), "0">> >>)
        ELSE IF accent = mora
        THEN ToneRuns(<< <<PySlice(kana, 0, acc), "0">>, <<PySlice(kana, acc, acc + 1), "1">> >>)
        ELSE Ok(<<>>)

\* __convert_acc2hl (lines 461-614).
convert_acc2hl(kana, accent) ==
    IF accent = ALL_H THEN ToneRun(kana, "1")
    ELSE IF accent = ALL_L THEN ToneRun(kana, "0")
    ELSE LET a == PyInt(accent)
         IN  IF a.raised # "" THEN a ELSE ConvertAcc(kana, a.value)

\* The loop of lines 300-305.
RECURSIVE AccentHlList(_, _)
AccentHlList(kana_list, accent_list) ==
    IF kana_list = <<>> THEN Ok(<<>>)
    ELSE IF accent_list = <<>> THEN Raise("IndexError")
    ELSE LET h == convert_acc2hl(Head(kana_list), Head(accent_list))
         IN  IF h.raised # "" THEN h
             ELSE LET t == AccentHlList(Tail(kana_list), Tail(accent_list))
                  IN  IF t.raised # "" THEN t ELSE Ok(h.value \o t.value)

\* The glyphs of the model in the character class of line 428.
KanaLikeGlyphs == {"KANA", "K_A", "K_KA", "K_KI", "K_NA", "K_YA_S", "K_N", "K_Q"}

\* What the tagger gives for one word: its surface, its feature list after
\* line 395 as the length of the list and the fields 0, 9 and 24, and what
\* the front-end makes of the surface when line 429 asks it.
TaggerToken(surface, n_feature, pos1, kana, accent, reparsed) ==
    [surface |-> surface, n_feature |-> n_feature, pos1 |-> pos1, kana |-> kana,
     accent |-> accent, reparsed |-> reparsed]

\* The body of the loop of lines 383-447 for one word of the tagger.
FugashiWord(w) ==
    IF w.n_feature = 29
    THEN LET kana == IF w.surface # <<>> /\ w.surface[1] \in {"!", "?"} THEN w.surface
                     ELSE IF w.kana = <<"*">> THEN <<"'">>
                     ELSE w.kana
         IN  Ok([word_list |-> <<w.surface>>, kana_list |-> <<kana>>,
                 accent_list |-> <<w.accent>>, pos_list |-> <<w.pos1>>])
    ELSE IF w.surface # <<>> /\ w.surface[1] \in KanaLikeGlyphs
    THEN LET r == text_to_sep_kata(w.reparsed, FALSE)
         IN  IF r.raised # "" THEN Raise(r.raised)
             ELSE Ok([word_list |-> r.sep_text, kana_list |-> r.sep_kata,
                      accent_list |-> Repeat(<<"0">>, Len(r.sep_text)),
                      pos_list |-> Repeat("UNCATEGORIZED", Len(r.sep_text))])
    ELSE Ok([word_list |-> <<w.surface>>, kana_list |-> <<<<"'">>>>,
             accent_list |-> <<<<"*">>>>, pos_list |-> <<"UNCATEGORIZED">>])

\* str.split("/")[0]: the characters before the first "/".
RECURSIVE BeforeSlash(_)
BeforeSlash(s) ==
    IF s = <<>> \/ Head(s) = "/" THEN <<>> ELSE <<Head(s)>> \o BeforeSlash(Tail(s))

\* The body of the loop of lines 450-456.
FugashiAccent(accent) ==
    IF accent = <<"*">> THEN <<"0">>
    ELSE IF Len(accent) = 3 THEN BeforeSlash(accent)
    ELSE accent

\* __fugashi_sep_kata (lines 338-458) on the words the tagger gives, from
\* word i on.
RECURSIVE FugashiLoop(_, _, _)
FugashiLoop(tagged, i, acc) ==
    IF i > Len(tagged)
    THEN Ok([acc EXCEPT !.accent_list = [k \in 1..Len(acc.accent_list) |-> FugashiAccent(acc.accent_list[k])]])
    ELSE LET r == FugashiWord(tagged[i])
         IN  IF r.raised # "" THEN r
             ELSE FugashiLoop(tagged, i + 1,
                              [word_list |-> acc.word_list \o r.value.word_list,
                               kana_list |-> acc.kana_list \o r.value.kana_list,
                               accent_list |-> acc.accent_list \o r.value.accent_list,
                               pos_list |-> acc.pos_list \o r.value.pos_list])

NoWords == [word_list |-> <<>>, kana_list |-> <<>>, accent_list |-> <<>>, pos_list |-> <<>>]

fugashi_sep_kata(tagged) == FugashiLoop(tagged, 1, NoWords)

\* The loop of lines 272-282: tagged_words[k] is what the tagger gives for
\* sep_text[k].
RECURSIVE TagAll(_, _, _)
TagAll(tagged_words, k, acc) ==
    IF k > Len(tagged_words) THEN Ok(acc)
    ELSE LET r == fugashi_sep_kata(tagged_words[k])
         IN  IF r.raised # "" THEN r
             ELSE TagAll(tagged_words, k + 1,
                         [word_list |-> acc.word_list \o r.value.word_list,
                          kana_list |-> acc.kana_list \o r.value.kana_list,
                          accent_list |-> acc.accent_list \o r.value.accent_list,
                          pos_list |-> acc.pos_list \o r.value.pos_list])

\* jaconv.hira2kata for the glyphs of the model.
hira2kata(s) ==
    [k \in 1..Len(s) |-> CASE s[k] = "H_A" -> "K_A" [] s[k] = "H_KA" -> "K_KA" [] OTHER -> s[k]]

\* The loop of lines 644-647 for one word: the last proposal for it wins.
RECURSIVE YomikataWord(_, _, _)
YomikataWord(text, kana, proposals) ==
    IF proposals = <<>> THEN kana
    ELSE YomikataWord(text, IF text = Head(proposals).text THEN hira2kata(Head(proposals).reading) ELSE kana,
                      Tail(proposals))

\* __yomikata_patch (lines 618-649); proposals are the {word/reading} items
\* of reader.furigana in their order.
yomikata_patch(word_list, kana_list, proposals) ==
    [k \in 1..Len(word_list) |-> YomikataWord(word_list[k], kana_list[k], proposals)]

\* name in hougen_id: membership in a list, and for a string the substring
\* test, which for the strings "tokyo" and "kinki" and the names of the rule
\* groups is equality.
InHougen(name, hougen_id) ==
    IF hougen_id.kind = "list" THEN \E k \in 1..Len(hougen_id.rules) : hougen_id.rules[k] = name
    ELSE hougen_id.kind = "str" /\ hougen_id.value = name

\* One rule group of __hougen_patch on its own.
HougenRule(name, kata, acc, pos) ==
    IF name = "kinki"
    THEN Ok([kana_list |-> [k \in 1..Len(kata) |->
                              IF pos[k] = "NOUN" /\ Len(kata[k]) = 1
                              THEN Append(kata[k], "K_LONG") ELSE kata[k]],
             accent_list |-> acc])
    ELSE IF name \notin {"last_mora_acc_h", "last_word_acc_1"}
    THEN Ok([kana_list |-> kata, accent_list |-> acc])
    ELSE IF Len(kata) = 0 \/ Len(acc) = 0 THEN Raise("IndexError")
    ELSE Ok([kana_list |-> kata,
             accent_list |-> [acc EXCEPT ![Len(acc)] =
                                IF name = "last_word_acc_1" THEN <<"1">>
                                ELSE PyStr(Len(kata[Len(kata)]))]])

\* The rule groups applied one after the other in the order of the list.
RECURSIVE ListOrderLoop(_, _, _, _, _)
ListOrderLoop(kata, acc, pos, rules, k) ==
    IF k > Len(rules) THEN Ok([kana_list |-> kata, accent_list |-> acc])
    ELSE The({IF r.raised # "" THEN r
              ELSE ListOrderLoop(r.value.kana_list, r.value.accent_list, pos, rules, k + 1)
              : r \in {HougenRule(rules[k], kata, acc, pos)}})

ListOrderPatch(sep_kata_in, sep_acc, sep_pos, hougen_id) ==
    ListOrderLoop(sep_kata_in, sep_acc, sep_pos,
                  IF hougen_id.kind = "list" THEN hougen_id.rules ELSE <<hougen_id.value>>, 1)

\* The body of the loop of lines 843-855 for one word: the first of the
\* glyphs NA, NO, RU, RA that is in word[1:-1] is replaced by str.replace.
HatuonbinWord(word) ==
    LET inner == PySet(PySlice(word, 1, 0 - 1))
        replace(old) == [k \in 1..Len(word) |-> IF word[k] = old THEN "K_N" ELSE word[k]]
    IN  IF Len(word) = 1 THEN word
        ELSE IF "K_NA" \in inner THEN replace("K_NA")
        ELSE IF "K_NO" \in inner THEN replace("K_NO")
        ELSE IF "K_RU" \in inner THEN replace("K_RU")
        ELSE IF "K_RA" \in inner THEN replace("K_RA")
        ELSE word

\* __hougen_patch (lines 659-991) for the rule groups kinki (lines 746-751),
\* hatuonbin (lines 842-855), last_mora_acc_h (lines 980-983) and
\* last_word_acc_1 (lines 986-988).
hougen_patch(sep_kata_in, sep_acc, sep_pos, hougen_id) ==
    LET kata0 == IF InHougen("kinki", hougen_id)
                 THEN [k \in 1..Len(sep_kata_in) |->
                         IF sep_pos[k] = "NOUN" /\ Len(sep_kata_in[k]) = 1
                         THEN Append(sep_kata_in[k], "K_LONG") ELSE sep_kata_in[k]]
                 ELSE sep_kata_in
        kata1 == IF InHougen("hatuonbin", hougen_id)
                 THEN [k \in 1..Len(kata0) |-> HatuonbinWord(kata0[k])]
                 ELSE kata0
        last == Len(sep_acc)
    IN  IF InHougen("last_mora_acc_h", hougen_id) /\ (Len(kata1) = 0 \/ last = 0) THEN Raise("IndexError")
        ELSE IF InHougen("last_word_acc_1", hougen_id) /\ last = 0 THEN Raise("IndexError")
        ELSE LET acc1 == IF InHougen("last_mora_acc_h", hougen_id)
                         THEN [sep_acc EXCEPT ![last] = PyStr(Len(kata1[Len(kata1)]))]
                         ELSE sep_acc
                 acc2 == IF InHougen("last_word_acc_1", hougen_id)
                         THEN [acc1 EXCEPT ![last] = <<"1">>]
                         ELSE acc1
             IN  Ok([kana_list |-> kata1, accent_list |-> acc2])

\* The body of the loop of lines 1012-1065 for one word.
KeihanWord(kana, acc, pos) ==
    IF pos = "NOUN"
    THEN IF Len(kana) < 2 THEN Raise("IndexError")
         ELSE IF kana[2] = "K_LONG"
         THEN Ok(IF acc = <<"0">> THEN <<"1">> ELSE IF acc = ALL_L THEN <<"0">> ELSE acc)
         ELSE IF Len(kana) = 2
         THEN Ok(IF acc = <<"0">> THEN ALL_H ELSE IF acc = <<"2">> THEN <<"1">> ELSE acc)
         ELSE Ok(acc)
    ELSE IF pos = "VERB"
    THEN LET a2 == IF Len(kana) # 2 THEN acc
                   ELSE IF acc = <<"0">> THEN ALL_H ELSE IF acc = <<"1">> THEN <<"2">> ELSE acc
         IN  Ok(IF Len(kana) # 3 THEN a2
                ELSE IF a2 = <<"0">> THEN ALL_H ELSE IF a2 = <<"2">> THEN <<"3">> ELSE a2)
    ELSE IF pos = "ADJECTIVE"
    THEN LET a2 == IF Len(kana) = 2 /\ acc = <<"1">> THEN <<"2">> ELSE acc
         IN  Ok(IF Len(kana) # 3 THEN a2
                ELSE IF a2 = <<"0">> THEN <<"1">> ELSE IF a2 = <<"2">> THEN <<"1">> ELSE a2)
    ELSE Ok(acc)

\* __keihan_patch (lines 994-1066) from word i on.
RECURSIVE KeihanLoop(_, _, _, _)
KeihanLoop(sep_kata_in, sep_acc, sep_pos, i) ==
    IF i > Len(sep_pos) THEN Ok(sep_acc)
    ELSE LET r == KeihanWord(sep_kata_in[i], sep_acc[i], sep_pos[i])
         IN  IF r.raised # "" THEN r
             ELSE KeihanLoop(sep_kata_in, [sep_acc EXCEPT ![i] = r.value], sep_pos, i + 1)

keihan_patch(sep_kata_in, sep_acc, sep_pos) == KeihanLoop(sep_kata_in, sep_acc, sep_pos, 1)

\* Lines 316-335 of update_yomi: the assertion, the new phone_tone_list and
\* the choice between the standard pass and the new lists.
UpdateYomiResult(old, word_list, kana_list, accent_hl_list, new_sep_phonemes, new_phone_w_punct, mode) ==
    IF Len(accent_hl_list) # Len(new_phone_w_punct) THEN Raise("AssertionError")
    ELSE IF /\ mode = HougenStr("tokyo")
            /\ Concat(old.sep_phonemes) = new_phone_w_punct
            /\ Len(kana_list) = Len(old.sep_kata)
    THEN Ok(old)
    ELSE Ok([sep_text |-> word_list,
             sep_kata |-> kana_list,
             sep_phonemes |-> new_sep_phonemes,
             phone_tone_list |->
                 [k \in 1..Len(new_phone_w_punct) |->
                    <<new_phone_w_punct[k], PyInt(<<accent_hl_list[k]>>).value>>]])

\* Lines 296-313 of update_yomi, after the patches.
UpdateYomiTail(old, word_list, kana_list, accent_list, mode) ==
    The({IF accent_hl_list.raised # "" THEN accent_hl_list
         ELSE The({IF lists.raised # "" THEN lists
                   ELSE The({IF long.raised # "" THEN long
                             ELSE UpdateYomiResult(old, word_list, kana_list, accent_hl_list.value,
                                                   long.value, Concat(long.value), mode)
                             : long \in {handle_long(lists.value)}})
                   : lists \in {KataToPhonemeLists(kana_list)}})
         : accent_hl_list \in {AccentHlList(kana_list, accent_list)}})

\* Lines 285-286.
YomikataIf(yomikata, word_list, kana_list, proposals) ==
    IF yomikata THEN yomikata_patch(word_list, kana_list, proposals) ELSE kana_list

\* Lines 289-290.
HougenIf(mode, kana_list, accent_list, pos_list) ==
    IF mode # HougenNone THEN hougen_patch(kana_list, accent_list, pos_list, mode)
    ELSE Ok([kana_list |-> kana_list, accent_list |-> accent_list])

\* Lines 293-294.
KeihanIf(mode, kana_list, accent_list, pos_list) ==
    IF mode = HougenStr("kinki") THEN keihan_patch(kana_list, accent_list, pos_list)
    ELSE Ok(accent_list)

\* update_yomi (lines 209-335); old holds sep_text, sep_kata, sep_phonemes
\* and phone_tone_list of the standard pass.
update_yomi(old, tagged_words, yomikata, proposals, mode) ==
    The({IF tagged.raised # "" THEN tagged
         ELSE The({IF patched.raised # "" THEN patched
                   ELSE The({IF keihan.raised # "" THEN keihan
                             ELSE UpdateYomiTail(old, tagged.value.word_list,
                                                 patched.value.kana_list, keihan.value, mode)
                             : keihan \in {KeihanIf(mode, patched.value.kana_list,
                                                    patched.value.accent_list,
                                                    tagged.value.pos_list)}})
                   : patched \in {HougenIf(mode,
                                           YomikataIf(yomikata, tagged.value.word_list,
                                                      tagged.value.kana_list, proposals),
                                           tagged.value.accent_list, tagged.value.pos_list)}})
         : tagged \in {TagAll(tagged_words, 1, NoWords)}})

\* x in front of a list only.
PadFront(x, lst) == <<x>> \o lst

\* x in front of and behind a list (lines 131-132).
PadBoth(x, lst) == <<x>> \o lst \o <<x>>

\* The loop of lines 125-128 from word k on; zip stops at the shorter list.
RECURSIVE Word2phLoop(_, _, _, _)
Word2phLoop(tokenized, phonemes, k, acc) ==
    IF k > Min(Len(tokenized), Len(phonemes)) THEN Ok(acc)
    ELSE LET r == distribute_phone(Len(phonemes[k]), tokenized[k])
         IN  IF r.raised # "" THEN Raise(r.raised)
             ELSE Word2phLoop(tokenized, phonemes, k + 1, acc \o r.value)

\* The phonemes as they are, "N" included.
KeepN(phones) == phones

\* The phonemes without every "N".
DropN(phones) == SelectSeq(phones, LAMBDA p : p # "N")

\* Line 141 for use_jp_extra = False.
RenameN(phones) == [k \in 1..Len(phones) |-> IF phones[k] # "N" THEN phones[k] ELSE "n"]

\* Lines 124-143 of g2p.
G2PFinish(tokenized, phonemes, ptl, jp_extra) ==
    LET w == Word2phLoop(tokenized, phonemes, 1, <<>>)
    IN  IF w.raised # "" THEN w
        ELSE LET padded == PadBoth(<<"_", 0>>, ptl)
                 w2p == PadBoth(1, w.value)
                 phones == [k \in 1..Len(padded) |-> padded[k][1]]
                 tones == [k \in 1..Len(padded) |-> padded[k][2]]
             IN  IF Len(phones) # Sum(w2p) THEN Raise("AssertionError")
                 ELSE Ok(<<IF ~jp_extra THEN RenameN(phones) ELSE phones, tones, w2p>>)

(***************************************************************************)
(* The front-end: the words it knows, each with its surface after          *)
(* replace_punctuation, its reading and the phonemes of its morae in the   *)
(* labels (a punctuation mark gives a pause or nothing).                   *)
(***************************************************************************)
FrontEndWord(word, pron, morae) == [word |-> word, pron |-> pron, morae |-> morae]

FrontEndWords ==
    {FrontEndWord(<<"KANJI">>, <<"K_KA">>, << <<"k", "a">> >>),
     FrontEndWord(<<"KANJI", "KANJI">>, <<"K_KA", "K_N">>, << <<"k", "a">>, <<"N">> >>),
     FrontEndWord(<<"KANA", "K_LONG">>, <<"K_A", "K_LONG">>, << <<"a">>, <<"a">> >>),
     FrontEndWord(<<"KANJI">>, <<"K_KI", "K_YA_S", "DEVOICE_MARK">>, << <<"ky", "A">> >>),
     FrontEndWord(<<"KANA">>, <<"K_Q">>, << <<"cl">> >>),
     FrontEndWord(<<"K_LONG">>, <<"K_LONG">>, << <<"a">> >>),
     FrontEndWord(<<"!">>, <<"FW_COMMA">>, << <<"pau">> >>),
     FrontEndWord(<<"?">>, <<"FW_QUESTION">>, <<>>),
     FrontEndWord(<<"CYRILLIC">>, <<"FW_COMMA">>, <<>>)}

MaxWords == 2
MaxMorae == 2

\* The A and F fields of the labels of the morae of one accent phrase of
\* n_mora morae whose accent nucleus is on mora accent_type (0 for none).
PhraseFeatures(n_mora, accent_type) ==
    [k \in 1..n_mora |->
       [a1 |-> k - accent_type, a2 |-> k, a3 |-> n_mora - k + 1, f1 |-> n_mora]]

\* The ways the front-end can cut n morae into accent phrases.
RECURSIVE Phrasings(_)
Phrasings(n) ==
    IF n = 0 THEN {<<>>}
    ELSE UNION {{PhraseFeatures(len, t) \o rest : t \in 0..len, rest \in Phrasings(n - len)}
                  : len \in 1..n}

Silence(e3) == Label("sil", Missing, Missing, Missing, e3, Missing)

MoraLabels(mora, f) ==
    [k \in 1..Len(mora) |->
       IF mora[k] = "pau" THEN Label("pau", Missing, Missing, Missing, Missing, Missing)
       ELSE Label(mora[k], f.a1, f.a2, f.a3, Missing, f.f1)]

MoraeOf(words) == Concat([k \in 1..Len(words) |-> words[k].morae])

\* The texts of the model with the result of run_frontend and of make_label
\* for each: a text without phonemes has no labels or the two silences.
Utterances ==
    UNION {
      LET morae == MoraeOf(words)
      IN  {[parsed |-> [k \in 1..Len(words) |-> [word |-> words[k].word, pron |-> words[k].pron]],
            labels |-> <<Silence(Missing)>>
                       \o Concat([k \in 1..Len(morae) |-> MoraLabels(morae[k], f[k])])
                       \o <<Silence(e3)>>]
             : f \in Phrasings(Len(morae)), e3 \in {0, 1, Missing}}
          \cup (IF morae = <<>>
                THEN {[parsed |-> [k \in 1..Len(words) |-> [word |-> words[k].word, pron |-> words[k].pron]],
                       labels |-> <<>>]}
                ELSE {})
      : words \in {ws \in SeqsUpTo(FrontEndWords, MaxWords) : Len(MoraeOf(ws)) <= MaxMorae}}

HougenModes ==
    {HougenNone, HougenList(<<"kinki", "last_mora_acc_h">>),
     HougenList(<<"last_word_acc_1", "last_mora_acc_h">>),
     HougenStr("tokyo"), HougenStr("kinki")}

InitG2P ==
    /\ pc = "g2p_77"
    /\ IdleAdjust
    /\ IdleDistribute
    /\ \E u \in Utterances : parsed = u.parsed /\ labels = u.labels
    /\ raise_yomi_error \in BOOLEAN
    /\ use_jp_extra \in BOOLEAN
    /\ use_unidic3 \in BOOLEAN
    /\ use_yomikata \in (IF use_unidic3 THEN BOOLEAN ELSE {FALSE})
    /\ hougen_mode \in (IF use_unidic3 THEN HougenModes ELSE {HougenNone})
    /\ tone_loop = NoToneLoop
    /\ yomi_loop = NoYomiLoop
    /\ onnx = NoOnnx
    /\ sep_text = <<>>
    /\ sep_kata = <<>>
    /\ phone_tone_list_wo_punct = <<>>
    /\ sep_phonemes = <<>>
    /\ phone_tone_list = <<>>
    /\ tagger_out = <<>>
    /\ yomikata_out = <<>>
    /\ sep_tokenized = <<>>
    /\ ret = <<>>

(***************************************************************************)
(* The tagger: the entries of its dictionary for the surfaces of the       *)
(* model, as the fields 0, 9 and 24 of the 29 features of an entry.        *)
(***************************************************************************)
TaggerEntry(surface, pos1, kana, accent) == TaggerToken(surface, 29, pos1, kana, accent, <<>>)

TaggerDict ==
    {TaggerEntry(<<"KANJI">>, "NOUN", <<"K_KA">>, <<"0">>),
     TaggerEntry(<<"KANJI">>, "VERB", <<"K_KI", "K_YA_S">>, <<"1", "/", "0">>),
     TaggerEntry(<<"KANJI">>, "NOUN", <<"*">>, <<"*">>),
     TaggerEntry(<<"KANJI", "KANJI">>, "NOUN", <<"K_KA", "K_N">>, <<"2">>),
     TaggerEntry(<<"KANJI", "KANJI">>, "VERB", <<"K_KA", "K_N">>, <<"3">>),
     TaggerEntry(<<"KANJI", "KANJI">>, "ADJECTIVE", <<"K_KA", "K_NA">>, <<"0", "/", "1", "/", "2">>),
     TaggerEntry(<<"KANA", "K_LONG">>, "ADJECTIVE", <<"K_A", "K_LONG">>, <<"1">>),
     TaggerEntry(<<"KANA">>, "NOUN", <<"K_Q">>, <<"0">>),
     TaggerEntry(<<"K_LONG">>, "SYMBOL", <<"K_LONG">>, <<"*">>),
     TaggerEntry(<<"!">>, "SYMBOL", <<"*">>, <<"*">>),
     TaggerEntry(<<"?">>, "SYMBOL", <<"?">>, <<"*">>)}

\* A word that is not in the dictionary has fewer features; line 429 then
\* asks the front-end for a surface that begins like kana, and the front-end
\* reads it or does not.
UnknownTokens(surface) ==
    IF surface # <<>> /\ surface[1] \in KanaLikeGlyphs
    THEN {TaggerToken(surface, 6, "", <<>>, <<>>, <<[word |-> surface, pron |-> pron]>>)
            : pron \in {<<"K_A">>, <<"FW_COMMA">>}}
    ELSE {TaggerToken(surface, 6, "", <<>>, <<>>, <<>>)}

\* What the tagger can give for one word of sep_text: nothing for an empty
\* word, else the word as one token, or its characters as unknown tokens.
TaggerOutputs(text) ==
    IF text = <<>> THEN {<<>>}
    ELSE {<<t>> : t \in {e \in TaggerDict : e.surface = text} \cup UnknownTokens(text)}
         \cup (IF Len(text) = 2
               THEN {<<a, b>> : a \in UnknownTokens(<<text[1]>>), b \in UnknownTokens(<<text[2]>>)}
               ELSE {})

\* All the lists that have an element of sets[k] at position k.
RECURSIVE ProductOf(_)
ProductOf(sets) ==
    IF sets = <<>> THEN {<<>>}
    ELSE {<<h>> \o t : h \in Head(sets), t \in ProductOf(Tail(sets))}

YomikataOutputs == {<<>>, <<[text |-> <<"KANJI">>, reading |-> <<"H_A">>]>>}

\* The number of tokens the tokenizer can give for a word (line 118): one
\* for each character, or one for the word.
TokenCounts(text) == IF text = <<>> THEN {0} ELSE {Len(text), 1}

\* The length of the element lines 116-121 append for a word.
SepTokenized(text) ==
    IF Len(text) = 1 /\ (\E j \in 1..Len(PUNCTUATIONS) : PUNCTUATIONS[j] = text[1]) THEN {1}
    ELSE TokenCounts(text)

\* Lines 77-92.
G2PStandardPath ==
    /\ pc = "g2p_77"
    /\ \E wo_punct \in {g2phone_tone_wo_punct(labels)} :
         IF wo_punct.raised # ""
         THEN pc' = wo_punct.raised /\ UNCHANGED <<sepVars, g2pLocals>>
         ELSE \E sep \in {text_to_sep_kata(parsed, raise_yomi_error)} :
           IF sep.raised # ""
           THEN pc' = sep.raised /\ UNCHANGED <<sepVars, g2pLocals>>
           ELSE \E lists \in {KataToPhonemeLists(sep.sep_kata)} :
             IF lists.raised # ""
             THEN pc' = lists.raised /\ UNCHANGED <<sepVars, g2pLocals>>
             ELSE \E long \in {handle_long(lists.value)} :
               IF long.raised # ""
               THEN pc' = long.raised /\ UNCHANGED <<sepVars, g2pLocals>>
               ELSE \E aligned \in {align_tones(Concat(long.value), wo_punct.value)} :
                 IF aligned.raised # ""
                 THEN pc' = aligned.raised /\ UNCHANGED <<sepVars, g2pLocals>>
                 ELSE /\ pc' = "g2p_95"
                      /\ phone_tone_list_wo_punct' = wo_punct.value
                      /\ sep_text' = sep.sep_text
                      /\ sep_kata' = sep.sep_kata
                      /\ sep_phonemes' = long.value
                      /\ phone_tone_list' = aligned.value
                      /\ UNCHANGED <<parsed, raise_yomi_error, tagger_out, yomikata_out,
                                     sep_tokenized>>
    /\ UNCHANGED <<adjVars, distVars, g2pArgs, onnx, tone_loop, yomi_loop, ret>>

\* Lines 95-106 with use_unidic3: the tagger and the homograph reader answer
\* inside update_yomi.
G2PUpdateYomi ==
    /\ pc = "g2p_95"
    /\ use_unidic3
    /\ \E tagged \in ProductOf([k \in 1..Len(sep_text) |-> TaggerOutputs(sep_text[k])]) :
       \E furigana \in (IF use_yomikata THEN YomikataOutputs ELSE {<<>>}) :
       \E r \in {update_yomi([sep_text |-> sep_text, sep_kata |-> sep_kata,
                              sep_phonemes |-> sep_phonemes, phone_tone_list |-> phone_tone_list],
                             tagged, use_yomikata, furigana, hougen_mode)} :
         /\ tagger_out' = tagged
         /\ yomikata_out' = furigana
         /\ IF r.raised # ""
            THEN pc' = r.raised /\ UNCHANGED <<sep_text, sep_kata, sep_phonemes, phone_tone_list>>
            ELSE /\ pc' = "g2p_114"
                 /\ sep_text' = r.value.sep_text
                 /\ sep_kata' = r.value.sep_kata
                 /\ sep_phonemes' = r.value.sep_phonemes
                 /\ phone_tone_list' = r.value.phone_tone_list
    /\ UNCHANGED <<adjVars, distVars, parsed, raise_yomi_error, g2pArgs, onnx, tone_loop, yomi_loop, phone_tone_list_wo_punct,
                   sep_tokenized, ret>>

\* Line 95 without use_unidic3.
G2PKeepYomi ==
    /\ pc = "g2p_95"
    /\ ~use_unidic3
    /\ pc' = "g2p_114"
    /\ UNCHANGED <<adjVars, distVars, sepVars, g2pArgs, onnx, tone_loop, yomi_loop, g2pLocals, ret>>

\* Lines 114-143.
G2PWord2ph ==
    /\ pc = "g2p_114"
    /\ \E tokenized \in ProductOf([k \in 1..Len(sep_text) |-> SepTokenized(sep_text[k])]) :
       \E r \in {G2PFinish(tokenized, sep_phonemes, phone_tone_list, use_jp_extra)} :
         /\ sep_tokenized' = tokenized
         /\ pc' = IF r.raised = "" THEN "returned" ELSE r.raised
         /\ ret' = r.value
         /\ word2ph' = IF r.raised = "" THEN r.value[3] ELSE word2ph
    /\ UNCHANGED <<generated_phone, given_phone, differences, replayed, swept_low,
                   adjusted_word2ph, unpaid, unabsorbed, distVars, sepVars, g2pArgs, onnx, tone_loop, yomi_loop,
                   phone_tone_list_wo_punct, sep_phonemes, phone_tone_list, tagger_out, yomikata_out>>

NextG2P ==
    \/ G2PStandardPath
    \/ G2PUpdateYomi
    \/ G2PKeepYomi
    \/ G2PWord2ph

SpecG2P == InitG2P /\ [][NextG2P]_vars

(***************************************************************************)
(* Properties of g2p under SpecG2P.  ret is <<phones, tones, word2ph>> of  *)
(* a call that returned.                                                   *)
(***************************************************************************)
(***************************************************************************)
(* __g2phone_tone_wo_punct (lines 1273-1327) one symbol at a time, on the  *)
(* labels of any text: a silence at both ends and at most MaxUnits         *)
(* phonemes and pauses between them.                                       *)
(***************************************************************************)
MaxUnits == 3

\* The phoneme labels and the pause make_label can give between the silences.
ToneUnits ==
    {Label(p3, a1, a2, a3, Missing, 2) : p3 \in {"k", "a"}, a1 \in {0, 1}, a2 \in {0, 1, 2}, a3 \in {1, 2}}
    \cup {Label("cl", 1, 1, 2, Missing, 2), Label("A", 0, 1, 1, Missing, 2),
          Label("pau", Missing, Missing, Missing, Missing, Missing)}

InitTone ==
    /\ pc = "tone_1289"
    /\ IdleAdjust
    /\ IdleDistribute
    /\ IdleSepKata
    /\ \E units \in SeqsUpTo(ToneUnits, MaxUnits), e3 \in {0, 1, Missing} :
         labels = <<Silence(Missing)>> \o units \o <<Silence(e3)>>
    /\ use_jp_extra = TRUE
    /\ use_unidic3 = FALSE
    /\ use_yomikata = FALSE
    /\ hougen_mode = HougenNone
    /\ phone_tone_list_wo_punct = <<>>
    /\ sep_phonemes = <<>>
    /\ phone_tone_list = <<>>
    /\ tagger_out = <<>>
    /\ yomikata_out = <<>>
    /\ sep_tokenized = <<>>
    /\ tone_loop = NoToneLoop
    /\ yomi_loop = NoYomiLoop
    /\ onnx = NoOnnx
    /\ ret = <<>>

\* Lines 1289-1293.
ToneProsody ==
    /\ pc = "tone_1289"
    /\ \E r \in {pyopenjtalk_g2p_prosody(labels)} :
         IF r.raised # "" THEN pc' = r.raised /\ UNCHANGED tone_loop
         ELSE /\ pc' = "tone_1295"
              /\ tone_loop' = [NoToneLoop EXCEPT !.prosodies = r.value]
    /\ UNCHANGED <<adjVars, distVars, sepVars, g2pArgs, onnx, g2pLocals, yomi_loop, ret>>

\* One round of the loop of lines 1295-1325.
ToneStep ==
    /\ pc = "tone_1295"
    /\ tone_loop.i < Len(tone_loop.prosodies)
    /\ \E letter \in {tone_loop.prosodies[tone_loop.i + 1]} :
         IF letter = "^"
         THEN IF tone_loop.i # 0 THEN pc' = "AssertionError" /\ UNCHANGED tone_loop
              ELSE pc' = pc /\ tone_loop' = [tone_loop EXCEPT !.i = @ + 1]
         ELSE IF letter \in {"$", "?", "_", "#"}
         THEN \E fixed \in {fix_phone_tone(tone_loop.current_phrase)} :
                IF fixed.raised # "" THEN pc' = fixed.raised /\ UNCHANGED tone_loop
                ELSE IF letter \in {"$", "?"} /\ tone_loop.i # Len(tone_loop.prosodies) - 1
                THEN pc' = "AssertionError" /\ UNCHANGED tone_loop
                ELSE /\ pc' = pc
                     /\ tone_loop' = [tone_loop EXCEPT !.i = @ + 1,
                                                       !.result = @ \o fixed.value,
                                                       !.current_phrase = <<>>,
                                                       !.current_tone = 0]
         ELSE IF letter = "["
         THEN pc' = pc /\ tone_loop' = [tone_loop EXCEPT !.i = @ + 1, !.current_tone = @ + 1]
         ELSE IF letter = "]"
         THEN pc' = pc /\ tone_loop' = [tone_loop EXCEPT !.i = @ + 1, !.current_tone = @ - 1]
         ELSE /\ pc' = pc
              /\ tone_loop' = [tone_loop EXCEPT
                                 !.i = @ + 1,
                                 !.current_phrase =
                                     Append(@, <<IF letter = "cl" THEN "q" ELSE letter,
                                                 tone_loop.current_tone>>)]
    /\ UNCHANGED <<adjVars, distVars, sepVars, g2pArgs, onnx, g2pLocals, yomi_loop, ret>>

\* Line 1327.
ToneReturn ==
    /\ pc = "tone_1295"
    /\ tone_loop.i = Len(tone_loop.prosodies)
    /\ pc' = "returned"
    /\ ret' = tone_loop.result
    /\ UNCHANGED <<adjVars, distVars, sepVars, g2pArgs, onnx, g2pLocals, tone_loop, yomi_loop>>

NextTone ==
    \/ ToneProsody
    \/ ToneStep
    \/ ToneReturn

SpecTone == InitTone /\ [][NextTone]_vars

\* The two models of the loop agree.
ToneLoopAgrees ==
    (pc \in {"returned", "ValueError", "AssertionError"}) =>
        \A r \in {g2phone_tone_wo_punct(labels)} :
           IF pc = "returned" THEN r.raised = "" /\ r.value = ret ELSE r.raised = pc

G2PReturned == pc = "returned"

G2PEnded == pc \notin {"g2p_77", "g2p_95", "g2p_114"}

\* The tones the standard pass gave go from high to low inside the text:
\* __fix_phone_tone has turned a phrase with the tones -1 and 0 into 0 and 1.
FallFixed ==
    \E k \in 1..(Len(phone_tone_list_wo_punct) - 1) :
       phone_tone_list_wo_punct[k][2] = 1 /\ phone_tone_list_wo_punct[k + 1][2] = 0

\* C1: every call of g2p that returns, with or without the second analyzer
\* and whatever the options, returns as many tones as phonemes, and word2ph
\* sums to that number.
C1_LengthsAgree ==
    G2PReturned => Len(ret[1]) = Len(ret[2]) /\ Len(ret[1]) = Sum(ret[3])

\* A call with the second analyzer and without use_jp_extra has returned a
\* text of two words with the moraic nasal renamed.
C1_Witness ==
    /\ G2PReturned
    /\ use_unidic3
    /\ ~use_jp_extra
    /\ Len(ret[3]) = 4
    /\ \E k \in 1..Len(ret[1]) : ret[1][k] = "n"

\* C2: every call of g2p that returns has "_" as its first and last phoneme,
\* 0 as its first and last tone and 1 as its first and last word2ph entry.
C2_BoundaryUnits ==
    G2PReturned =>
        /\ ret[1][1] = "_" /\ ret[1][Len(ret[1])] = "_"
        /\ ret[2][1] = 0 /\ ret[2][Len(ret[2])] = 0
        /\ ret[3][1] = 1 /\ ret[3][Len(ret[3])] = 1

\* A call without the second analyzer has returned a text of two words that
\* ends in a phoneme with tone 1.
C2_Witness ==
    /\ G2PReturned
    /\ ~use_unidic3
    /\ Len(ret[3]) = 4
    /\ ret[2][Len(ret[2]) - 1] = 1
    /\ ret[1][Len(ret[1]) - 1] # "_"

\* C3: every tone a call of g2p returns is 0 or 1, whether it comes from the
\* accent phrases of the labels and the alignment with the punctuation or
\* from the accent codes of the second analyzer.
C3_TonesBinary ==
    G2PReturned => \A k \in 1..Len(ret[2]) : ret[2][k] \in {0, 1}

\* A call has returned tones of the second analyzer, among them a 1, after
\* the standard pass had a falling phrase to fix.
C3_Witness ==
    /\ G2PReturned
    /\ use_unidic3
    /\ FallFixed
    /\ phone_tone_list # phone_tone_list_wo_punct
    /\ \E k \in 1..Len(ret[2]) : ret[2][k] = 1

\* C9: for a text without words whose labels are the begin and the end
\* silence only, g2p returns <<"_", "_">>, <<0, 0>> and <<1, 1>>.
C9_EmptyTextMinimalOutput ==
    (G2PEnded /\ parsed = <<>> /\ Len(labels) = 2) =>
        G2PReturned /\ ret = << <<"_", "_">>, <<0, 0>>, <<1, 1>> >>

\* What lines 124-143 return for the same words, phonemes and tones with
\* the other value of use_jp_extra.
OtherSpelling == G2PFinish(sep_tokenized, sep_phonemes, phone_tone_list, ~use_jp_extra)

\* C11: use_jp_extra only changes the spelling of the moraic nasal: the call
\* without it returns the phonemes of the call with it with every "N" as
\* "n" and nothing else changed, and the same tones and word2ph.
C11_NasalSpellingOnly ==
    G2PReturned =>
        \A other \in {OtherSpelling} :
           /\ other.raised = ""
           /\ \A with_N \in {IF use_jp_extra THEN ret ELSE other.value} :
              \A with_n \in {IF use_jp_extra THEN other.value ELSE ret} :
                 /\ with_n[2] = with_N[2]
                 /\ with_n[3] = with_N[3]
                 /\ Len(with_n[1]) = Len(with_N[1])
                 /\ \A k \in 1..Len(with_N[1]) :
                       with_n[1][k] = (IF with_N[1][k] = "N" THEN "n" ELSE with_N[1][k])

\* A call without use_jp_extra has returned an "n" that is "N" with the
\* option, next to a consonant and a vowel that are the same with it.
C11_Witness ==
    /\ G2PReturned /\ ~use_jp_extra
    /\ \E other \in {OtherSpelling} :
          /\ \E k \in 1..Len(ret[1]) : ret[1][k] = "n" /\ other.value[1][k] = "N"
          /\ \E k \in 1..Len(ret[1]) : ret[1][k] = "k" /\ other.value[1][k] = "k"
          /\ \E k \in 1..Len(ret[1]) : ret[1][k] = "a" /\ other.value[1][k] = "a"

\* A standard result no alternate pass can equal: with it update_yomi gives
\* what the alternate pass computed.
NoStandard ==
    [sep_text |-> <<>>, sep_kata |-> <<>>, sep_phonemes |-> << <<"">> >>, phone_tone_list |-> <<>>]

\* The four lists g2p holds at line 95 and at line 114.
YomiNow ==
    [sep_text |-> sep_text, sep_kata |-> sep_kata,
     sep_phonemes |-> sep_phonemes, phone_tone_list |-> phone_tone_list]

YomiNext ==
    [sep_text |-> sep_text', sep_kata |-> sep_kata',
     sep_phonemes |-> sep_phonemes', phone_tone_list |-> phone_tone_list']

\* update_yomi has returned in this step.
UpdateYomiReturns == pc = "g2p_95" /\ use_unidic3 /\ pc' = "g2p_114"

\* C12: when update_yomi returns it returns the four lists of the standard
\* pass if the phonemes of the alternate pass, concatenated, and the number
\* of its tokens equal those of the standard pass, and the four lists of the
\* alternate pass otherwise.
C12_StandardKeptWhenEqual ==
    [][UpdateYomiReturns =>
         \A alternate \in {update_yomi(NoStandard, tagger_out', use_yomikata, yomikata_out',
                                       hougen_mode).value} :
            YomiNext = IF /\ Concat(alternate.sep_phonemes) = Concat(sep_phonemes)
                          /\ Len(alternate.sep_kata) = Len(sep_kata)
                       THEN YomiNow ELSE alternate]_vars

\* update_yomi has returned with dialect rule groups selected by a list.
HougenPatched == pc = "g2p_114" /\ use_unidic3 /\ hougen_mode.kind = "list"

\* What update_yomi gave __hougen_patch at line 290.
HougenInput ==
    The({[kana |-> YomikataIf(use_yomikata, t.value.word_list, t.value.kana_list, yomikata_out),
          acc |-> t.value.accent_list, pos |-> t.value.pos_list]
         : t \in {TagAll(tagger_out, 1, NoWords)}})

\* The same selection with the list in the opposite order.
Reversed(mode) == [mode EXCEPT !.rules = [k \in 1..Len(@) |-> @[Len(@) + 1 - k]]]

\* C13 (as the code has it): the selected rule groups are applied in the one
\* order of the tests of __hougen_patch, whatever their order in the
\* hougen_mode list: the list in the opposite order gives the same readings
\* and accent codes and the same result of update_yomi, and with both
\* last_mora_acc_h and last_word_acc_1 selected the last accent code is "1".
C13_FixedGroupOrder ==
    HougenPatched =>
        \A args \in {HougenInput} :
        \A r \in {hougen_patch(args.kana, args.acc, args.pos, hougen_mode)} :
        \A rr \in {hougen_patch(args.kana, args.acc, args.pos, Reversed(hougen_mode))} :
        \A u \in {update_yomi(NoStandard, tagger_out, use_yomikata, yomikata_out,
                              Reversed(hougen_mode))} :
           /\ r.raised = ""
           /\ rr = r
           /\ u.raised = "" /\ u.value = YomiNow
           /\ (InHougen("last_mora_acc_h", hougen_mode) /\ InHougen("last_word_acc_1", hougen_mode))
                 => r.value.accent_list[Len(r.value.accent_list)] = <<"1">>

\* update_yomi has returned for the list last_word_acc_1, last_mora_acc_h and
\* a last word of two glyphs or more: in the order of the list the last
\* accent code would be the length of that word.
C13_Witness ==
    /\ HougenPatched
    /\ hougen_mode.rules = <<"last_word_acc_1", "last_mora_acc_h">>
    /\ \A args \in {HougenInput} :
          /\ Len(args.kana[Len(args.kana)]) >= 2
          /\ ListOrderPatch(args.kana, args.acc, args.pos, hougen_mode)
                # hougen_patch(args.kana, args.acc, args.pos, hougen_mode)

\* C13 (as stated): the selected rule groups are applied in the order of the
\* hougen_mode list.
C13_ListOrderApplied ==
    HougenPatched =>
        \A args \in {HougenInput} :
           hougen_patch(args.kana, args.acc, args.pos, hougen_mode)
              = ListOrderPatch(args.kana, args.acc, args.pos, hougen_mode)

\* update_yomi has returned with the rule group kinki selected.
KinkiSelected == pc = "g2p_114" /\ use_unidic3 /\ InHougen("kinki", hougen_mode)

\* C14: when kinki is among the selected dialect rules, the lists update_yomi
\* returns are made from the accent codes __keihan_patch gives for the
\* readings and accent codes after the dialect rules.
C14_KinkiRemapsAccents ==
    KinkiSelected =>
        \A args \in {HougenInput} :
        \A patched \in {hougen_patch(args.kana, args.acc, args.pos, hougen_mode)} :
        \A keihan \in {keihan_patch(patched.value.kana_list, patched.value.accent_list, args.pos)} :
           /\ keihan.raised = ""
           /\ \A u \in {UpdateYomiTail(NoStandard, sep_text, patched.value.kana_list,
                                       keihan.value, hougen_mode)} :
                 u.raised = "" /\ u.value = YomiNow

\* The loop of __g2phone_tone_wo_punct is at a boundary symbol.
AtBoundary ==
    /\ pc = "tone_1295"
    /\ tone_loop.i < Len(tone_loop.prosodies)
    /\ tone_loop.prosodies[tone_loop.i + 1] \in {"$", "?", "_", "#"}

\* The tones of the buffered accent phrase as the loop counted them.
RawTones == {tone_loop.current_phrase[k][2] : k \in 1..Len(tone_loop.current_phrase)}

\* C15: at every boundary symbol ($, ?, _, #) the loop goes past, the
\* buffered phrase is appended to the result with its tones normalized
\* (unchanged for the tones {0} and {0, 1}; -1 to 0 and 0 to 1 for the tones
\* {-1, 0}), the buffer is emptied and current_tone is 0 again.
C15_BoundaryFlushes ==
    [][(AtBoundary /\ pc' = "tone_1295") =>
         /\ tone_loop'.current_phrase = <<>>
         /\ tone_loop'.current_tone = 0
         /\ Len(tone_loop'.result) = Len(tone_loop.result) + Len(tone_loop.current_phrase)
         /\ \A k \in 1..Len(tone_loop.result) : tone_loop'.result[k] = tone_loop.result[k]
         /\ \A k \in 1..Len(tone_loop.current_phrase) :
               tone_loop'.result[Len(tone_loop.result) + k]
                  = <<tone_loop.current_phrase[k][1],
                      IF RawTones = {0 - 1, 0} THEN tone_loop.current_phrase[k][2] + 1
                      ELSE tone_loop.current_phrase[k][2]>>
         /\ \A k \in 1..Len(tone_loop.current_phrase) :
               tone_loop'.result[Len(tone_loop.result) + k][2] \in {0, 1}]_vars

\* The loop has just gone past a phrase boundary and has appended a phrase
\* that fell: its first tone is now 1 and its last 0.
C15_Witness ==
    /\ pc = "tone_1295"
    /\ tone_loop.i >= 1
    /\ tone_loop.prosodies[tone_loop.i] = "#"
    /\ tone_loop.current_phrase = <<>>
    /\ tone_loop.current_tone = 0
    /\ \E j \in 1..tone_loop.i : tone_loop.prosodies[j] = "]"
    /\ \A j \in 1..tone_loop.i : tone_loop.prosodies[j] \notin {"[", "_"}
    /\ Len(tone_loop.result) >= 2
    /\ tone_loop.result[1][2] = 1
    /\ tone_loop.result[Len(tone_loop.result)][2] = 0

\* C16: the normalization of the tones fails at a boundary symbol exactly
\* when the tones buffered for the accent phrase are none of {0}, {0, 1} and
\* {-1, 0}: so for two rises or two falls in a phrase and for an empty
\* buffer, and the call fails with it.
C16_FailsOnOtherToneSets ==
    [][AtBoundary =>
         /\ (pc' \in {"ValueError", "AssertionError"}) <=> (RawTones \notin {{0}, {0, 1}, {0 - 1, 0}})
         /\ pc' \in {"ValueError", "AssertionError", "tone_1295"}]_vars

\* The call has failed at a boundary symbol with a phrase that fell twice.
C16_Witness ==
    /\ pc = "ValueError"
    /\ tone_loop.prosodies[tone_loop.i + 1] \in {"$", "?", "_", "#"}
    /\ RawTones = {0 - 2, 0 - 1, 0}

\* __g2phone_tone_wo_punct has returned.
ToneReturned == pc = "returned" /\ tone_loop # NoToneLoop

\* The phonemes among the symbols of the stream, the geminate marker as "q".
StreamPhonemes ==
    The({[k \in 1..Len(kept) |-> IF kept[k] = "cl" THEN "q" ELSE kept[k]]
         : kept \in {SelectSeq(tone_loop.prosodies,
                               LAMBDA s : s \notin {"^", "$", "?", "_", "#", "[", "]"})}})

\* C17: when __g2phone_tone_wo_punct returns, the phonemes of its result are
\* the phonemes of the symbol stream, all of them and in their order.
C17_NoPhonemeLost ==
    ToneReturned => [k \in 1..Len(ret) |-> ret[k][1]] = StreamPhonemes

\* __pyopenjtalk_g2p_prosody has returned the symbol stream of the labels.
ProsodyDone == pc \in {"tone_1295", "returned", "ValueError"} /\ tone_loop # NoToneLoop

\* The conditions of the three markers for label n, which has a next label.
PhraseBreakAt(n) ==
    /\ labels[n].a3 = 1 /\ labels[n + 1].a2 = 1
    /\ Lower(labels[n].p3) \in {"a", "e", "i", "o", "u", "N", "cl"}

PitchFallAt(n) ==
    labels[n].a1 = 0 /\ labels[n + 1].a2 = labels[n].a2 + 1 /\ labels[n].a2 # labels[n].f1

PitchRiseAt(n) == labels[n].a2 = 1 /\ labels[n + 1].a2 = 2

\* What the unit of label n puts into the stream according to C18 (and for a
\* silence, the code's begin and end symbols).
UnitSymbols(n) ==
    IF labels[n].p3 = "sil"
    THEN IF n = 1 THEN <<"^">>
         ELSE IF labels[n].e3 = 0 THEN <<"$">> ELSE IF labels[n].e3 = 1 THEN <<"?">> ELSE <<>>
    ELSE IF labels[n].p3 = "pau" THEN <<"_">>
    ELSE <<Lower(labels[n].p3)>> \o
         (IF PhraseBreakAt(n) THEN <<"#">>
          ELSE IF PitchFallAt(n) THEN <<"]">>
          ELSE IF PitchRiseAt(n) THEN <<"[">>
          ELSE <<>>)

\* C18: in the stream of __pyopenjtalk_g2p_prosody each phoneme unit gives
\* its phoneme and then at most one marker, the phrase break before the
\* pitch fall before the pitch rise when the conditions of several hold; a
\* silence and a pause give no marker.
C18_OneMarkerByPriority ==
    ProsodyDone =>
        /\ tone_loop.prosodies = Concat([n \in 1..Len(labels) |-> UnitSymbols(n)])
        /\ \A n \in 1..Len(labels) :
              /\ Len(UnitSymbols(n)) <= 2
              /\ labels[n].p3 \in {"sil", "pau"}
                    => \A k \in 1..Len(UnitSymbols(n)) : UnitSymbols(n)[k] \notin {"#", "]", "["}

\* The stream has been made from labels with a unit where the conditions of
\* the phrase break and of the pitch fall hold and a unit where those of the
\* pitch fall and of the pitch rise hold.
C18_Witness ==
    /\ ProsodyDone
    /\ \E n \in 2..(Len(labels) - 1) :
          labels[n].p3 \notin {"sil", "pau"} /\ PhraseBreakAt(n) /\ PitchFallAt(n)
    /\ \E n \in 2..(Len(labels) - 1) :
          labels[n].p3 \notin {"sil", "pau"} /\ PitchFallAt(n) /\ PitchRiseAt(n) /\ ~PhraseBreakAt(n)

\* The labels begin and end with a silence.
SilenceAtBothEnds ==
    Len(labels) >= 2 /\ labels[1].p3 = "sil" /\ labels[Len(labels)].p3 = "sil"

\* C19 (as the code has it): for labels with a silence at both ends the
\* stream begins with "^", and the last silence gives "$" when its e3 is 0,
\* "?" when its e3 is 1 and no symbol for any other e3, the -50 of a missing
\* feature included: the stream then has no end symbol.  "^", "$" and "?"
\* are nowhere else in the stream.
C19_EndSymbolOnlyForZeroOrOne ==
    (ProsodyDone /\ SilenceAtBothEnds) =>
        \A s \in {tone_loop.prosodies} : \A e3 \in {labels[Len(labels)].e3} :
           /\ s[1] = "^"
           /\ \A k \in 2..Len(s) : s[k] # "^"
           /\ \A k \in 1..(Len(s) - 1) : s[k] \notin {"$", "?"}
           /\ e3 = 0 => s[Len(s)] = "$"
           /\ e3 = 1 => s[Len(s)] = "?"
           /\ e3 \notin {0, 1} => s[Len(s)] \notin {"$", "?"}

\* The stream of labels whose last silence has no e3 has been made, and it
\* ends with a phoneme.
C19_Witness ==
    /\ ProsodyDone /\ SilenceAtBothEnds
    /\ labels[Len(labels)].e3 = Missing
    /\ tone_loop.prosodies[Len(tone_loop.prosodies)] = "a"

\* C19 (as stated): for labels with a silence at both ends the stream begins
\* with "^" and ends with one end symbol, "?" when the e3 of the last
\* silence is 1 and "$" for any other e3.
C19_AlwaysOneEndSymbol ==
    (ProsodyDone /\ SilenceAtBothEnds) =>
        \A s \in {tone_loop.prosodies} :
           /\ s[1] = "^"
           /\ s[Len(s)] = (IF labels[Len(labels)].e3 = 1 THEN "?" ELSE "$")
           /\ \A k \in 1..(Len(s) - 1) : s[k] \notin {"$", "?"}

\* __align_tones has returned at line 92: g2p holds its arguments and its
\* result.
AlignReturned == pc = "g2p_95"

\* C20: when __align_tones returns, the punctuation-preserving phonemes
\* without the punctuation are the phonemes of the tone list, all of them
\* and in their order, and each has the tone of its entry in the tone list.
C20_StreamsAgree ==
    AlignReturned =>
        \A kept \in {SelectSeq(phone_tone_list,
                               LAMBDA pt : \A j \in 1..Len(PUNCTUATIONS) : PUNCTUATIONS[j] # pt[1])} :
           kept = phone_tone_list_wo_punct

(***************************************************************************)
(* Properties of longest_common_subsequence and extract_differences        *)
(***************************************************************************)
\* The elements of X at the (1-based) positions of S that are >= k, in order.
RECURSIVE PickFrom(_, _, _)
PickFrom(X, S, k) ==
    IF k > Len(X) THEN <<>>
    ELSE IF k \in S THEN <<X[k]>> \o PickFrom(X, S, k + 1)
    ELSE PickFrom(X, S, k + 1)

\* s can be obtained from t by deleting elements.
RECURSIVE IsSubsequence(_, _)
IsSubsequence(s, t) ==
    IF s = <<>> THEN TRUE
    ELSE IF t = <<>> THEN FALSE
    ELSE IF Head(s) = Head(t) THEN IsSubsequence(Tail(s), Tail(t))
    ELSE IsSubsequence(s, Tail(t))

\* The size of the largest order-preserving matching of equal phonemes.
LongestMatching(X, Y) ==
    CHOOSE n \in 0..Len(X) :
        /\ \E S \in SUBSET (1..Len(X)) : Cardinality(S) = n /\ IsSubsequence(PickFrom(X, S, 1), Y)
        /\ \A S \in SUBSET (1..Len(X)) : IsSubsequence(PickFrom(X, S, 1), Y) => Cardinality(S) <= n

\* C21: the index pairs returned by longest_common_subsequence are strictly
\* increasing in both coordinates, each pair indexes equal phonemes of the
\* generated and the given sequence, and the number of pairs is the largest
\* possible for any order-preserving matching.
C21_LcsIsLongestMatching ==
    AdjustEnded =>
        \A X \in {StripEnds(generated_phone)} :
        \A Y \in {StripEnds(given_phone)} :
        \A index_pairs \in {longest_common_subsequence(X, Y)} :
            /\ \A k \in 1..Len(index_pairs) :
                 /\ index_pairs[k][1] \in 0..(Len(X) - 1)
                 /\ index_pairs[k][2] \in 0..(Len(Y) - 1)
                 /\ X[index_pairs[k][1] + 1] = Y[index_pairs[k][2] + 1]
            /\ \A k \in 1..(Len(index_pairs) - 1) :
                 /\ index_pairs[k][1] < index_pairs[k + 1][1]
                 /\ index_pairs[k][2] < index_pairs[k + 1][2]
            /\ Len(index_pairs) = LongestMatching(X, Y)

\* Two pairs with a skipped phoneme between them on both sides.
C21_Witness ==
    /\ AdjustEnded
    /\ StripEnds(generated_phone) = <<"a", "b", "a">>
    /\ StripEnds(given_phone) = <<"a", "x", "a">>
    /\ longest_common_subsequence(StripEnds(generated_phone), StripEnds(given_phone))
         = << <<0, 0>>, <<2, 2>> >>

\* The 0-based position p lies inside the value of the part d of a segment.
InsideValue(d, p) == d.begin_index <= p /\ p < d.begin_index + Len(d.value)

\* The number of segments whose generated part holds position p.
GeneratedSegmentsAt(p) ==
    Cardinality({k \in 1..Len(differences) : InsideValue(differences[k].generated, p)})

\* The number of segments whose given part holds position p.
GivenSegmentsAt(p) ==
    Cardinality({k \in 1..Len(differences) : InsideValue(differences[k].given, p)})

\* C22: the segments of extract_differences are exactly the complement of
\* the common subsequence: every position of generated and of given, the
\* last positions included, is either in the common subsequence or inside
\* the value of exactly one segment on its side; the segments are ordered by
\* position and none has both sides empty.
C22_SegmentsAreComplement ==
    AdjustEnded =>
        \A X \in {StripEnds(generated_phone)} :
        \A Y \in {StripEnds(given_phone)} :
        \A index_pairs \in {longest_common_subsequence(X, Y)} :
            /\ \A p \in 0..(Len(X) - 1) :
                 GeneratedSegmentsAt(p) =
                     IF \E k \in 1..Len(index_pairs) : index_pairs[k][1] = p THEN 0 ELSE 1
            /\ \A p \in 0..(Len(Y) - 1) :
                 GivenSegmentsAt(p) =
                     IF \E k \in 1..Len(index_pairs) : index_pairs[k][2] = p THEN 0 ELSE 1
            /\ \A k \in 1..(Len(differences) - 1) :
                 /\ differences[k].generated.begin_index <= differences[k + 1].generated.begin_index
                 /\ differences[k].given.begin_index <= differences[k + 1].given.begin_index
            /\ \A k \in 1..Len(differences) : DiffNotEmpty(differences[k])

(***************************************************************************)
(* Properties of the two sweeps of adjust_word2ph                          *)
(***************************************************************************)
\* adjusted_word2ph when the first sweep reaches slot k, having handled the
\* slots j..k-1 of a.
RECURSIVE LowBefore(_, _, _)
LowBefore(a, j, k) ==
    IF j >= k THEN a
    ELSE IF a[j] < 1
         THEN LowBefore(RepayLoop([a EXCEPT ![j] = 1], j, 1, 1 - a[j]).arr, j + 1, k)
    ELSE LowBefore(a, j + 1, k)

\* adjusted_word2ph when the second sweep reaches slot k.
RECURSIVE HighBefore(_, _, _)
HighBefore(a, j, k) ==
    IF j >= k THEN a
    ELSE IF a[j] > MaxPhonesPerChar
         THEN HighBefore(AbsorbLoop([a EXCEPT ![j] = MaxPhonesPerChar], j, 1,
                                    a[j] - MaxPhonesPerChar).arr, j + 1, k)
    ELSE HighBefore(a, j + 1, k)

\* The repair r of slot k of a to the value bound: the slots left of k are
\* unchanged, slot k holds bound, the slots changed after k are the nearest
\* ones (every slot between k and a changed slot is left at bound), each
\* changed slot is not left beyond bound, and the total changes by what was
\* left over only.
RepairKeepsTotal(a, k, r, bound) ==
    /\ Len(r.arr) = Len(a)
    /\ \A j \in 1..(k - 1) : r.arr[j] = a[j]
    /\ r.arr[k] = bound
    /\ \A j \in (k + 1)..Len(a) :
         r.arr[j] # a[j] =>
             /\ \A h \in (k + 1)..(j - 1) : r.arr[h] = bound
             /\ IF bound = 1 THEN r.arr[j] >= 1 ELSE r.arr[j] <= MaxPhonesPerChar
    /\ r.lost >= 0
    /\ Sum(r.arr) = IF bound = 1 THEN Sum(a) + r.lost ELSE Sum(a) - r.lost

\* C23: each sweep of adjust_word2ph keeps the total whenever it does not
\* run out of following slots: raising a slot below 1 to 1 takes exactly the
\* shortfall from the nearest following slots, none of which it leaves
\* below 1; cutting a slot above 6 to 6 adds exactly the surplus to the
\* nearest following slots, none of which it leaves above 6; the slots left
\* of the repaired slot are unchanged.
C23_SweepsKeepTotal ==
    pc = "returned" =>
        /\ LowBefore(replayed, 1, Len(replayed) + 1) = swept_low
        /\ HighBefore(swept_low, 1, Len(swept_low) + 1) = adjusted_word2ph
        /\ unpaid = 0 => Sum(swept_low) = Sum(replayed)
        /\ unabsorbed = 0 => Sum(adjusted_word2ph) = Sum(swept_low)
        /\ \A k \in 1..Len(replayed) :
           \A a \in {LowBefore(replayed, 1, k)} :
             a[k] < 1 =>
                \A r \in {RepayLoop([a EXCEPT ![k] = 1], k, 1, 1 - a[k])} :
                    RepairKeepsTotal(a, k, r, 1)
        /\ \A k \in 1..Len(swept_low) :
           \A a \in {HighBefore(swept_low, 1, k)} :
             a[k] > MaxPhonesPerChar =>
                \A r \in {AbsorbLoop([a EXCEPT ![k] = MaxPhonesPerChar], k, 1,
                                     a[k] - MaxPhonesPerChar)} :
                    RepairKeepsTotal(a, k, r, MaxPhonesPerChar)

\* A call in which the first sweep raised a slot and took the shortfall from
\* a following slot, the second sweep cut a slot and pushed the surplus into
\* a following slot, and neither ran out of slots.
C23_Witness ==
    /\ pc = "returned"
    /\ unpaid = 0
    /\ unabsorbed = 0
    /\ \E k \in 1..Len(replayed) :
         /\ replayed[k] < 1
         /\ swept_low[k] = 1
         /\ \E j \in (k + 1)..Len(replayed) : swept_low[j] < replayed[j]
    /\ \E k \in 1..Len(swept_low) :
         /\ swept_low[k] > MaxPhonesPerChar
         /\ adjusted_word2ph[k] = MaxPhonesPerChar
         /\ \E j \in (k + 1)..Len(swept_low) : adjusted_word2ph[j] > swept_low[j]
    /\ Sum(adjusted_word2ph) = Sum(replayed)

(***************************************************************************)
(* Line 84 of g2p (and line 309 of update_yomi) on its own: the readings   *)
(* of the words are converted by __kata_to_phoneme_list, then the list of  *)
(* the results is passed to __handle_long.                                 *)
(***************************************************************************)
MaxKata == 4
MaxNextKata == 2

\* The readings of one word: kana with long marks, possibly with a
\* punctuation mark among them.
LongReadings ==
    SeqsUpTo({"K_KA", "K_KI", "K_YA_S", "K_N", "K_Q", "K_LONG", "!"}, MaxKata)

\* The readings of the word next to it.
NextReadings ==
    SeqsUpTo({"K_KA", "K_N", "K_Q", "K_LONG"}, MaxNextKata) \cup {<<"!">>, <<"-">>}

InitLong ==
    /\ pc = "kata_to_phoneme_list"
    /\ IdleAdjust
    /\ IdleDistribute
    /\ IdleG2P
    /\ parsed = <<>>
    /\ raise_yomi_error = FALSE
    /\ sep_text = <<>>
    /\ \E a \in LongReadings : \E b \in NextReadings :
         sep_kata \in {<<a>>, <<a, b>>, <<b, a>>}
    /\ ret = <<>>

\* [__kata_to_phoneme_list(i) for i in sep_kata] of line 84.
KataToPhonemes ==
    /\ pc = "kata_to_phoneme_list"
    /\ \E lists \in {KataToPhonemeLists(sep_kata)} :
         IF lists.raised # ""
         THEN pc' = lists.raised /\ UNCHANGED sep_phonemes
         ELSE pc' = "handle_long" /\ sep_phonemes' = lists.value
    /\ UNCHANGED <<adjVars, distVars, sepVars, g2pArgs, onnx, tone_loop, yomi_loop, phone_tone_list_wo_punct,
                   phone_tone_list, tagger_out, yomikata_out, sep_tokenized, ret>>

\* The call of __handle_long of line 84.  The function changes the list it
\* is given and returns it; ret is the list after the call and sep_phonemes
\* keeps the list before it.
HandleLong ==
    /\ pc = "handle_long"
    /\ \E long \in {handle_long(sep_phonemes)} :
         IF long.raised # ""
         THEN pc' = long.raised /\ UNCHANGED ret
         ELSE pc' = "returned" /\ ret' = long.value
    /\ UNCHANGED <<adjVars, distVars, sepVars, g2pArgs, onnx, tone_loop, yomi_loop, g2pLocals>>

NextLong ==
    \/ KataToPhonemes
    \/ HandleLong

SpecLong == InitLong /\ [][NextLong]_vars

(***************************************************************************)
(* Properties of __kata_to_phoneme_list and __handle_long under SpecLong   *)
(***************************************************************************)
\* The number of long marks of text from position i on, up to the first
\* glyph that is not one.
RECURSIVE MarksAt(_, _)
MarksAt(text, i) ==
    IF i > Len(text) \/ text[i] # "K_LONG" THEN 0 ELSE 1 + MarksAt(text, i + 1)

\* The longest mora of the mora table at position i of text.
MoraAt(text, i) ==
    IF i < Len(text) /\ SubSeq(text, i, i + 1) \in DOMAIN MORA_KATA_TO_MORA_PHONEMES
    THEN SubSeq(text, i, i + 1)
    ELSE <<text[i]>>

\* What the statement asks of the morae of text from position i on, where a
\* mora begins: the phonemes of each mora, then as many copies of its final
\* phoneme as long marks follow it.
RECURSIVE MoraeWithCopies(_, _)
MoraeWithCopies(text, i) ==
    IF i > Len(text) THEN <<>>
    ELSE LET mora == MoraAt(text, i)
             ph   == MORA_KATA_TO_MORA_PHONEMES[mora]
             m    == MarksAt(text, i + Len(mora))
         IN  (IF ph[1] = "" THEN <<>> ELSE <<ph[1]>>) \o <<ph[2]>> \o Repeat(ph[2], m)
             \o MoraeWithCopies(text, i + Len(mora) + m)

KataConverted == pc \in {"handle_long", "returned", "IndexError"}

\* C24: in the result of __kata_to_phoneme_list, a run of m consecutive long
\* marks right after a converted mora is replaced by m copies of that mora's
\* final phoneme, and the long marks at the very start of the reading are
\* left as marks, one slot each.
C24_MarksCopyFinalPhoneme ==
    KataConverted =>
        /\ Len(sep_phonemes) = Len(sep_kata)
        /\ \A k \in 1..Len(sep_kata) :
           \A text \in {sep_kata[k]} :
             ~(PySet(text) \subseteq PySet(PUNCTUATIONS)) =>
                sep_phonemes[k] = Repeat("K_LONG", MarksAt(text, 1))
                                  \o MoraeWithCopies(text, MarksAt(text, 1) + 1)

\* The reading of the example of the docstring in small: a long mark at the
\* start, a mora, and a run of two long marks after it.
C24_Witness ==
    /\ KataConverted
    /\ sep_kata[1] = <<"K_LONG", "K_KA", "K_LONG", "K_LONG">>
    /\ sep_phonemes[1] = <<"K_LONG", "k", "a", "a", "a">>

IsVowel(phoneme) == \E v \in 1..Len(VOWELS) : VOWELS[v] = phoneme

\* The phoneme before position j of word k of the returned list: the one
\* before it in its word or, for the first position, the last phoneme of the
\* word before; "" when there is none.
PhonemeBefore(k, j) ==
    IF j > 1 THEN ret[k][j - 1]
    ELSE IF k > 1 /\ Len(ret[k - 1]) > 0 THEN ret[k - 1][Len(ret[k - 1])]
    ELSE ""

\* C25 as stated: __handle_long turns a long mark into "-" when the mark is
\* the very first symbol of the phonemes of its word, or when the phoneme
\* right before it is not a vowel, and into a copy of the vowel before it
\* only otherwise.
C25_DashAtWordStart ==
    pc = "returned" =>
        \A k \in 1..Len(sep_phonemes) :
        \A j \in 1..Len(sep_phonemes[k]) :
            sep_phonemes[k][j] = "K_LONG" =>
                ret[k][j] = IF j = 1 \/ ~IsVowel(PhonemeBefore(k, j)) THEN "-"
                            ELSE PhonemeBefore(k, j)

\* C25 as amended: whenever __handle_long returns, a long mark has become
\* "-" when it is the very first symbol of the first word (nothing is
\* before it), or when the phoneme right before it, which for the first
\* symbol of a later word is the last phoneme of the word before, is not a
\* vowel; otherwise it has become a copy of that vowel.  Every other phoneme
\* is unchanged.
C25_DashAtStartOrAfterNonVowel ==
    pc = "returned" =>
        /\ Len(ret) = Len(sep_phonemes)
        /\ \A k \in 1..Len(sep_phonemes) :
             /\ Len(ret[k]) = Len(sep_phonemes[k])
             /\ \A j \in 1..Len(sep_phonemes[k]) :
                  IF sep_phonemes[k][j] = "K_LONG"
                  THEN ret[k][j] = IF ~IsVowel(PhonemeBefore(k, j)) THEN "-"
                                   ELSE PhonemeBefore(k, j)
                  ELSE ret[k][j] = sep_phonemes[k][j]

\* A word that begins with two long marks after a word that ends with a
\* vowel: both marks became that vowel.
C25_Witness ==
    /\ pc = "returned"
    /\ sep_phonemes = << <<"k", "a">>, <<"K_LONG", "K_LONG", "k", "i">> >>
    /\ ret = << <<"k", "a">>, <<"a", "a", "k", "i">> >>

(***************************************************************************)
(* Lines 297-318 of update_yomi on their own: the tone run of every token  *)
(* from its reading and accent code, the phonemes of the readings, and the *)
(* assertion that both have the same length.                               *)
(***************************************************************************)
MaxAccKata == 4

\* The readings of a token.
AccReadings ==
    SeqsUpTo({"K_KA", "K_KI", "K_YA_S", "K_N", "K_LONG"}, MaxAccKata) \ {<<>>}

\* The accent codes of a token.
AccCodes == {<<"0">>, <<"1">>, <<"2">>, <<"3">>, <<"4">>, <<"5">>, ALL_H, ALL_L}

\* A token after the first one.
NextReadingsAndCodes ==
    {<<kana, code>> : kana \in {<<"K_KA">>, <<"K_LONG", "K_KA">>}, code \in {<<"0">>, <<"1">>}}

InitYomi ==
    /\ pc = "update_yomi_297"
    /\ IdleAdjust
    /\ IdleDistribute
    /\ IdleSepKata
    /\ labels = <<>>
    /\ tone_loop = NoToneLoop
    /\ onnx = NoOnnx
    /\ use_jp_extra = TRUE
    /\ use_unidic3 = TRUE
    /\ use_yomikata = FALSE
    /\ hougen_mode = HougenNone
    /\ phone_tone_list_wo_punct = <<>>
    /\ sep_phonemes = <<>>
    /\ phone_tone_list = <<>>
    /\ tagger_out = <<>>
    /\ yomikata_out = <<>>
    /\ sep_tokenized = <<>>
    /\ \E kana \in AccReadings : \E code \in AccCodes :
         \/ yomi_loop = [NoYomiLoop EXCEPT !.kana_list = <<kana>>, !.accent_list = <<code>>]
         \/ \E next \in NextReadingsAndCodes :
              yomi_loop = [NoYomiLoop EXCEPT !.kana_list = <<kana, next[1]>>,
                                             !.accent_list = <<code, next[2]>>]
    /\ ret = <<>>

\* Lines 297-305.
YomiAccents ==
    /\ pc = "update_yomi_297"
    /\ \E r \in {AccentHlList(yomi_loop.kana_list, yomi_loop.accent_list)} :
         IF r.raised # "" THEN pc' = r.raised /\ UNCHANGED yomi_loop
         ELSE /\ pc' = "update_yomi_308"
              /\ yomi_loop' = [yomi_loop EXCEPT !.accent_hl_list = r.value]
    /\ UNCHANGED <<adjVars, distVars, sepVars, g2pArgs, onnx, g2pLocals, tone_loop, ret>>

\* Lines 308-318.
YomiPhonemes ==
    /\ pc = "update_yomi_308"
    /\ \E lists \in {KataToPhonemeLists(yomi_loop.kana_list)} :
         IF lists.raised # "" THEN pc' = lists.raised /\ UNCHANGED yomi_loop
         ELSE \E long \in {handle_long(lists.value)} :
           IF long.raised # "" THEN pc' = long.raised /\ UNCHANGED yomi_loop
           ELSE /\ yomi_loop' = [yomi_loop EXCEPT !.new_phone_w_punct = Concat(long.value)]
                /\ pc' = IF Len(yomi_loop.accent_hl_list) # Len(Concat(long.value))
                         THEN "AssertionError"
                         ELSE "update_yomi_320"
    /\ UNCHANGED <<adjVars, distVars, sepVars, g2pArgs, onnx, g2pLocals, tone_loop, ret>>

NextYomi ==
    \/ YomiAccents
    \/ YomiPhonemes

SpecYomi == InitYomi /\ [][NextYomi]_vars

(***************************************************************************)
(* Properties of __convert_acc2hl and of lines 297-318 under SpecYomi      *)
(***************************************************************************)
\* One tone for every phoneme of the characters b..e-1 (0-based) of kana.
TonesFor(kana, b, e, tone) ==
    Repeat(tone, Len(kata_to_phoneme_list(PySlice(kana, b, e)).value))

\* The tones with "1" for the characters b..e-1 of kana and "0" for the
\* characters before b and from after on.
HighOnly(kana, b, e, after) ==
    TonesFor(kana, 0, b, "0") \o TonesFor(kana, b, e, "1") \o TonesFor(kana, after, Len(kana), "0")

IsYouon(kana, i) == i <= Len(kana) /\ kana[i] \in YouonGlyphs

\* The tone run of the amended statement for a reading kana of two or more
\* characters and an integer accent code k.
NucleusTones(kana, k) ==
    LET n == Len(kana)
        first == IF IsYouon(kana, 2) THEN 2 ELSE 1
    IN  IF n = 2 /\ IsYouon(kana, 2) THEN TonesFor(kana, 0, n, IF k = 1 THEN "1" ELSE "0")
        ELSE IF k = 0 THEN TonesFor(kana, 0, first, "0") \o TonesFor(kana, first, n, "1")
        ELSE IF k = 1 THEN TonesFor(kana, 0, first, "1") \o TonesFor(kana, first, n, "0")
        ELSE IF k > n THEN <<>>
        ELSE IF k = n THEN HighOnly(kana, k - 1, k, k)
        ELSE IF IsYouon(kana, 2) /\ k = 2 THEN HighOnly(kana, 2, 3, 3)
        ELSE IF IsYouon(kana, k + 1) THEN HighOnly(kana, k - 1, k + 1, k + 1)
        ELSE HighOnly(kana, k - 1, k, k)

\* The number of characters of the first u units of kana from character i
\* on, a character and a glide after it being one unit.
RECURSIVE UnitEnds(_, _)
UnitEnds(kana, i) ==
    IF i > Len(kana) THEN <<>>
    ELSE IF IsYouon(kana, i + 1) THEN <<i + 1>> \o UnitEnds(kana, i + 2)
    ELSE <<i>> \o UnitEnds(kana, i + 1)

YomiAccentsDone == pc \in {"update_yomi_308", "update_yomi_320", "AssertionError"}

\* C26 as stated: for a reading of n >= 2 units, a glide digraph being one
\* unit, code 0 gives a low first unit and high later units, code k with
\* 1 <= k <= n gives high units 1..k and low units after k, ALL_H gives all
\* high and ALL_L all low.
C26_HighUpToNucleus ==
    YomiAccentsDone =>
        \A w \in 1..Len(yomi_loop.kana_list) :
        \A kana \in {yomi_loop.kana_list[w]} :
        \A code \in {yomi_loop.accent_list[w]} :
        \A ends \in {UnitEnds(kana, 1)} :
        \A r \in {convert_acc2hl(kana, code)} :
            Len(ends) >= 2 =>
                /\ r.raised = ""
                /\ code = ALL_H => r.value = TonesFor(kana, 0, Len(kana), "1")
                /\ code = ALL_L => r.value = TonesFor(kana, 0, Len(kana), "0")
                /\ code = <<"0">> =>
                     r.value = TonesFor(kana, 0, ends[1], "0")
                               \o TonesFor(kana, ends[1], Len(kana), "1")
                /\ \A k \in 1..Len(ends) :
                     code = PyStr(k) =>
                        r.value = TonesFor(kana, 0, ends[k], "1")
                                  \o TonesFor(kana, ends[k], Len(kana), "0")

\* C26 as amended: for a reading of n >= 2 characters, ALL_H gives all high
\* and ALL_L all low; a reading that is one character and a glide is all
\* high for code 1 and all low for any other code; code 0 gives a low first
\* unit and high after it, code 1 a high first unit and low after it, the
\* first unit being the first character with a glide that follows it; code
\* k with 2 <= k <= n gives high for character k alone, taken with a glide
\* that follows it when k < n, and low before and after it, except that
\* after a first unit with a glide code 2 gives high for the third character
\* alone; a code above n gives no tones at all.  The tone run of the call is
\* the tone runs of its tokens one after the other.
C26_HighAtNucleusOnly ==
    YomiAccentsDone =>
        /\ \A w \in 1..Len(yomi_loop.kana_list) :
           \A kana \in {yomi_loop.kana_list[w]} :
           \A code \in {yomi_loop.accent_list[w]} :
           \A r \in {convert_acc2hl(kana, code)} :
               Len(kana) >= 2 =>
                   /\ r.raised = ""
                   /\ r.value = IF code = ALL_H THEN TonesFor(kana, 0, Len(kana), "1")
                                ELSE IF code = ALL_L THEN TonesFor(kana, 0, Len(kana), "0")
                                ELSE NucleusTones(kana, PyInt(code).value)
        /\ yomi_loop.accent_hl_list
             = Concat([w \in 1..Len(yomi_loop.kana_list) |->
                         convert_acc2hl(yomi_loop.kana_list[w], yomi_loop.accent_list[w]).value])

\* A reading of four characters with code 2 whose second character has a
\* glide after it: low, high for the digraph, low.
C26_Witness ==
    /\ YomiAccentsDone
    /\ yomi_loop.kana_list = << <<"K_KA", "K_KI", "K_YA_S", "K_KA">> >>
    /\ yomi_loop.accent_list = << <<"2">> >>
    /\ yomi_loop.accent_hl_list = <<"0", "0", "1", "1", "0", "0">>

\* C27: for every reading and accent code that reach the tone conversion,
\* the tone run has as many entries as the readings have phonemes, so the
\* assertion of line 316 never fails.
C27_ToneRunMatchesPhonemes ==
    /\ pc # "AssertionError"
    /\ pc = "update_yomi_320" =>
         Len(yomi_loop.accent_hl_list) = Len(yomi_loop.new_phone_w_punct)

(***************************************************************************)
(* Properties of __fugashi_sep_kata under SpecG2P                          *)
(***************************************************************************)
\* C28: in the lists __fugashi_sep_kata returns, a token without an accent
\* code has the code "0", and a token whose accent field lists several
\* codes has the first of them only, however many codes are listed and
\* however wide they are; so every returned accent code is a single value.
C28_FirstAccentKept ==
    \A k \in 1..Len(tagger_out) :
    \A r \in {fugashi_sep_kata(tagger_out[k])} :
        r.raised = "" =>
            \A accent_list \in {r.value.accent_list} :
                /\ \A j \in 1..Len(accent_list) :
                     /\ accent_list[j] # <<"*">>
                     /\ "/" \notin PySet(accent_list[j])
                /\ \A j \in 1..Len(tagger_out[k]) :
                   \A w \in {tagger_out[k][j]} :
                     (w.n_feature = 29 /\ Len(accent_list) = Len(tagger_out[k])) =>
                        accent_list[j] = IF w.accent = <<"*">> THEN <<"0">>
                                         ELSE BeforeSlash(w.accent)

(***************************************************************************)
(* __hougen_patch with hougen_id = ["hatuonbin"] on its own                *)
(***************************************************************************)
MaxHatuonKata == 4

InitHatuonbin ==
    /\ pc = "hougen_patch"
    /\ IdleAdjust
    /\ IdleDistribute
    /\ parsed = <<>>
    /\ raise_yomi_error = FALSE
    /\ sep_text = <<>>
    /\ \E a \in SeqsUpTo({"K_NA", "K_NO", "K_RU", "K_RA", "K_KA", "K_N"}, MaxHatuonKata) :
       \E b \in {<<"K_NA">>, <<"K_KA", "K_RU", "K_KA">>} :
         sep_kata \in {<<a>>, <<a, b>>, <<b, a>>}
    /\ labels = <<>>
    /\ tone_loop = NoToneLoop
    /\ yomi_loop = NoYomiLoop
    /\ onnx = NoOnnx
    /\ use_jp_extra = TRUE
    /\ use_unidic3 = TRUE
    /\ use_yomikata = FALSE
    /\ hougen_mode = HougenList(<<"hatuonbin">>)
    /\ phone_tone_list_wo_punct = <<>>
    /\ sep_phonemes = <<>>
    /\ phone_tone_list = <<>>
    /\ tagger_out = <<>>
    /\ yomikata_out = <<>>
    /\ sep_tokenized = <<>>
    /\ ret = <<>>

\* The call of line 290 for words that are nouns with the accent code "0".
\* The function changes sep_kata in place and returns it; ret is the list
\* after the call and sep_kata keeps the list before it.
HougenHatuonbin ==
    /\ pc = "hougen_patch"
    /\ \E r \in {hougen_patch(sep_kata, Repeat(<<"0">>, Len(sep_kata)),
                              Repeat("NOUN", Len(sep_kata)), hougen_mode)} :
         IF r.raised # "" THEN pc' = r.raised /\ UNCHANGED ret
         ELSE pc' = "returned" /\ ret' = r.value.kana_list
    /\ UNCHANGED <<adjVars, distVars, sepVars, g2pArgs, onnx, g2pLocals, tone_loop, yomi_loop>>

NextHatuonbin == HougenHatuonbin

SpecHatuonbin == InitHatuonbin /\ [][NextHatuonbin]_vars

\* C29: the hatuonbin rule never replaces the first or the last glyph of a
\* word: for every reading of two or more glyphs the first and the last
\* glyph are unchanged, and only glyphs NA, NO, RU or RA inside the word, of
\* one kind per word, become N.
C29_WordEndsUnchanged ==
    pc = "returned" =>
        /\ Len(ret) = Len(sep_kata)
        /\ \A k \in 1..Len(sep_kata) :
           \A before \in {sep_kata[k]} :
           \A after \in {ret[k]} :
               /\ Len(after) = Len(before)
               /\ Len(before) >= 2 =>
                    /\ after[1] = before[1]
                    /\ after[Len(after)] = before[Len(before)]
                    /\ \A j \in 2..(Len(before) - 1) :
                         after[j] # before[j] =>
                            /\ after[j] = "K_N"
                            /\ before[j] \in {"K_NA", "K_NO", "K_RU", "K_RA"}
                    /\ Cardinality({before[j] : j \in {i \in 1..Len(before) : after[i] # before[i]}}) <= 1

(***************************************************************************)
(* get_text_onnx (models/infer_onnx.py, lines 57-65)                       *)
(***************************************************************************)
\* __intersperse with the items of lst at the even places 0, 2, ... and
\* nothing in front of the first one ([item] * (len(lst) * 2) and
\* result[0::2] = lst in place of lines 29-30).
IntersperseFromStart(lst, item) ==
    [k \in 1..(2 * Len(lst)) |-> IF k % 2 = 1 THEN lst[(k + 1) \div 2] ELSE item]

\* __intersperse (lines 16-31): result[1::2] = lst fills the places 1, 3, ...
\* counted from 0.
intersperse(lst, item) ==
    [k \in 1..(2 * Len(lst) + 1) |-> IF k % 2 = 0 THEN lst[k \div 2] ELSE item]

MaxOnnxPhones == 3
MaxOnnxWords == 3

\* After line 57: cleaned_text_to_sequence gives a tone and a language id
\* for every phone; word2ph is the one of clean_text_with_given_phone_tone,
\* which has an entry for every character and the two ends.
InitOnnx ==
    /\ pc = "onnx_59"
    /\ IdleAdjust
    /\ IdleDistribute
    /\ IdleSepKata
    /\ labels = <<>>
    /\ tone_loop = NoToneLoop
    /\ yomi_loop = NoYomiLoop
    /\ use_jp_extra = TRUE
    /\ use_unidic3 = FALSE
    /\ use_yomikata = FALSE
    /\ hougen_mode = HougenNone
    /\ phone_tone_list_wo_punct = <<>>
    /\ sep_phonemes = <<>>
    /\ phone_tone_list = <<>>
    /\ tagger_out = <<>>
    /\ yomikata_out = <<>>
    /\ sep_tokenized = <<>>
    /\ \E phone \in SeqsUpTo({1, 2}, MaxOnnxPhones) \ {<<>>} :
       \E tone \in [1..Len(phone) -> {6, 7}] :
       \E w \in SeqsUpTo(0..MaxOnnxPhones, MaxOnnxWords) \ {<<>>} :
       \E blank \in BOOLEAN :
         onnx = [add_blank |-> blank, phone |-> phone, tone |-> tone,
                 language |-> Repeat(1, Len(phone)), word2ph |-> w]
    /\ ret = <<>>

\* Lines 59-65.
GetTextOnnxBlanks ==
    /\ pc = "onnx_59"
    /\ IF ~onnx.add_blank THEN pc' = "onnx_66" /\ UNCHANGED onnx
       ELSE IF Len(onnx.word2ph) = 0 THEN pc' = "IndexError" /\ UNCHANGED onnx
       ELSE /\ pc' = "onnx_66"
            /\ onnx' = [onnx EXCEPT
                          !.phone = intersperse(@, 0),
                          !.tone = intersperse(@, 0),
                          !.language = intersperse(@, 0),
                          !.word2ph = [k \in 1..Len(@) |-> IF k = 1 THEN @[k] * 2 + 1 ELSE @[k] * 2]]
    /\ UNCHANGED <<adjVars, distVars, sepVars, g2pArgs, g2pLocals, tone_loop, yomi_loop, ret>>

NextOnnx == GetTextOnnxBlanks

SpecOnnx == InitOnnx /\ [][NextOnnx]_vars

\* lst with item between its elements and at both ends.
IsInterspersed(after, lst, item) ==
    /\ Len(after) = 2 * Len(lst) + 1
    /\ \A k \in 1..Len(lst) : after[2 * k] = lst[k]
    /\ \A k \in 0..Len(lst) : after[2 * k + 1] = item

\* C30: if sum(word2ph) == len(phone) before the blanks are added, then
\* after lines 59-65 phone, tone and language have the length 2n + 1 with
\* the n original entries at the odd places (counted from 0) and blanks
\* elsewhere, every entry of word2ph is doubled and its first entry is one
\* more, and sum(word2ph) == len(phone) == len(tone) == len(language).
C30_BlanksKeepCorrespondence ==
    [][(/\ pc = "onnx_59"
        /\ onnx.add_blank
        /\ Sum(onnx.word2ph) = Len(onnx.phone))
          => /\ pc' = "onnx_66"
             /\ IsInterspersed(onnx'.phone, onnx.phone, 0)
             /\ IsInterspersed(onnx'.tone, onnx.tone, 0)
             /\ IsInterspersed(onnx'.language, onnx.language, 0)
             /\ Len(onnx'.word2ph) = Len(onnx.word2ph)
             /\ \A k \in 1..Len(onnx.word2ph) :
                  onnx'.word2ph[k] = 2 * onnx.word2ph[k] + (IF k = 1 THEN 1 ELSE 0)
             /\ Sum(onnx'.word2ph) = Len(onnx'.phone)
             /\ Len(onnx'.phone) = Len(onnx'.tone)
             /\ Len(onnx'.tone) = Len(onnx'.language)]_vars

\* Blanks were added to three phones of two characters and the two ends.
C30_Witness ==
    /\ pc = "onnx_66"
    /\ onnx.add_blank
    /\ onnx.phone = <<0, 1, 0, 2, 0, 1, 0>>
    /\ onnx.tone = <<0, 6, 0, 7, 0, 6, 0>>
    /\ onnx.language = <<0, 1, 0, 1, 0, 1, 0>>
    /\ onnx.word2ph = <<3, 2, 2>>
    /\ Sum(onnx.word2ph) = Len(onnx.phone)

====
